---- MODULE Spec2Model ----
(***************************************************************************)
(* Model of the memory-graph knowledge base in Event-Sourced mode: the     *)
(* in-memory graph (knowledge_base/crud.rs), the event store               *)
(* (event_store/store.rs), the snapshot manager (event_store/snapshot.rs)  *)
(* and log rotation (event_store/rotation.rs).                             *)
(*                                                                         *)
(* Entities carry name, entityType and observations; relations carry from, *)
(* to and relationType.  Timestamps, user names and validity windows never *)
(* influence a branch of the modelled code and are left out.               *)
(***************************************************************************)
EXTENDS Integers, Sequences, FiniteSets, TLC

(***************************************************************************)
(* Bounds of the model.                                                    *)
(***************************************************************************)
\* a process with the default configuration: the event ids handed out and the
\* lines written to events.jsonl are at most MaxEvents each
MaxEvents == 3
\* a process with the small snapshot threshold: at most MaxStoreEvents each
MaxStoreEvents == 4
\* length of the input list of one mutation call
MaxBatch == 2
\* snapshot_threshold of the EventStoreConfig that SpecStore runs with
SmallThreshold == 2

\* EventStoreConfig::default().snapshot_threshold
DefaultThreshold == 1000

Threads == {"t1", "t2"}
Names == {"a", "b"}
Types == {"t"}
Obs == {"x"}
RelTypes == {"r"}

NoFile == [exists |-> FALSE]
NoThread == "none"

(***************************************************************************)
(* Sequence helpers.                                                       *)
(***************************************************************************)
Range(s) == {s[i] : i \in 1..Len(s)}

RECURSIVE Filter(_, _)
\* Vec::retain / Iterator::filter with the predicate given as a set of kept values
Filter(s, keep) ==
    IF s = <<>> THEN <<>>
    ELSE IF Head(s) \in keep THEN <<Head(s)>> \o Filter(Tail(s), keep)
         ELSE Filter(Tail(s), keep)

\* index of the first element of s satisfying name = n, 0 if none (Iterator::find)
FindEntity(ents, n) ==
    IF \E i \in 1..Len(ents) : ents[i].name = n
    THEN CHOOSE i \in 1..Len(ents) :
            /\ ents[i].name = n
            /\ \A j \in 1..(i - 1) : ents[j].name # n
    ELSE 0

\* all sequences over S of length lo..hi
SeqsOf(S, lo, hi) == UNION {[1..n -> S] : n \in lo..hi}

(***************************************************************************)
(* Graph records.                                                          *)
(***************************************************************************)
Entity(n, t, o) == [name |-> n, entityType |-> t, observations |-> o]
Relation(f, t, rt) == [from |-> f, to |-> t, relationType |-> rt]
EmptyGraph == [entities |-> <<>>, relations |-> <<>>]

\* format!("{}|{}|{}", r.from, r.to, r.relation_type)
RelationKey(r) == r.from \o "|" \o r.to \o "|" \o r.relationType

SameRelation(r, d) ==
    r.from = d.from /\ r.to = d.to /\ r.relationType = d.relationType

(***************************************************************************)
(* Events.                                                                 *)
(***************************************************************************)
Event(id, ty, d) == [eventId |-> id, eventType |-> ty, data |-> d]

\* EntityUpdatedData.entity_type == None
NoType == "none"

\* EventStore::apply_event, EventType::EntityCreated
apply_entity_created(g, d) ==
    IF \E i \in 1..Len(g.entities) : g.entities[i].name = d.name
    THEN g
    ELSE [g EXCEPT !.entities =
            Append(@, Entity(d.name, d.entityType, d.observations))]

\* EventStore::apply_event, EventType::EntityUpdated
apply_entity_updated(g, d) ==
    LET i == FindEntity(g.entities, d.name)
    IN  IF i = 0 \/ d.entityType = NoType THEN g
        ELSE [g EXCEPT !.entities[i].entityType = d.entityType]

\* EventStore::apply_event, EventType::EntityDeleted
apply_entity_deleted(g, d) ==
    [entities |-> Filter(g.entities,
                    {x \in Range(g.entities) : x.name # d.name}),
     relations |-> Filter(g.relations,
                    {r \in Range(g.relations) : r.from # d.name /\ r.to # d.name})]

\* EventStore::apply_event, EventType::ObservationAdded
apply_observation_added(g, d) ==
    LET i == FindEntity(g.entities, d.entity)
    IN  IF i = 0 THEN g
        ELSE IF d.observation \in Range(g.entities[i].observations) THEN g
        ELSE [g EXCEPT !.entities[i].observations = Append(@, d.observation)]

\* EventStore::apply_event, EventType::ObservationRemoved
apply_observation_removed(g, d) ==
    LET i == FindEntity(g.entities, d.entity)
    IN  IF i = 0 THEN g
        ELSE [g EXCEPT !.entities[i].observations =
                            Filter(@, Range(@) \ {d.observation})]

\* apply_relation_created without the check that the relation already exists
apply_relation_created_unchecked(g, d) ==
    [g EXCEPT !.relations = Append(@, Relation(d.from, d.to, d.relationType))]

\* EventStore::apply_event, EventType::RelationCreated
apply_relation_created(g, d) ==
    IF \E i \in 1..Len(g.relations) : SameRelation(g.relations[i], d)
    THEN g
    ELSE [g EXCEPT !.relations =
            Append(@, Relation(d.from, d.to, d.relationType))]

\* EventStore::apply_event, EventType::RelationDeleted
apply_relation_deleted(g, d) ==
    [g EXCEPT !.relations =
        Filter(@, {r \in Range(@) : ~SameRelation(r, d)})]

\* EventStore::apply_event
apply_event(g, e) ==
    CASE e.eventType = "entity_created" -> apply_entity_created(g, e.data)
      [] e.eventType = "entity_updated" -> apply_entity_updated(g, e.data)
      [] e.eventType = "entity_deleted" -> apply_entity_deleted(g, e.data)
      [] e.eventType = "observation_added" -> apply_observation_added(g, e.data)
      [] e.eventType = "observation_removed" -> apply_observation_removed(g, e.data)
      [] e.eventType = "relation_created" -> apply_relation_created(g, e.data)
      [] e.eventType = "relation_deleted" -> apply_relation_deleted(g, e.data)

RECURSIVE ApplyAll(_, _)
\* the loop of replay_all / replay_after: apply the events in file order
ApplyAll(g, evs) ==
    IF evs = <<>> THEN g ELSE ApplyAll(apply_event(g, Head(evs)), Tail(evs))

RECURSIVE MaxId(_, _)
MaxId(m, evs) ==
    IF evs = <<>> THEN m
    ELSE MaxId(IF Head(evs).eventId > m THEN Head(evs).eventId ELSE m, Tail(evs))

\* EventStore::load_events_after
load_events_after(evs, after) ==
    Filter(evs, {e \in Range(evs) : e.eventId > after})

(***************************************************************************)
(* Mutations of knowledge_base/crud.rs.  A call is run on an accumulator:  *)
(* the graph so far, the emit_event calls made so far (each with whether   *)
(* its line reached events.jsonl) and whether an emit has failed.  A fault *)
(* names the emit_event call that fails (at = 0: none) and where in        *)
(* append_event it fails: "open" before the line is written, "sync" in     *)
(* sync_all after writeln has written it.                                  *)
(***************************************************************************)
NoFault == [at |-> 0, mode |-> "open"]

StartCall(g) == [graph |-> g, emitted |-> <<>>, err |-> FALSE]

\* KnowledgeBase::emit_event -> create_and_append_event -> append_event
emit_event(acc, ty, d, fault) ==
    IF Len(acc.emitted) + 1 = fault.at
    THEN [acc EXCEPT !.emitted = Append(@, [eventType |-> ty, data |-> d,
                                            written |-> fault.mode = "sync"]),
                     !.err = TRUE]
    ELSE [acc EXCEPT !.emitted = Append(@, [eventType |-> ty, data |-> d,
                                            written |-> TRUE])]

RECURSIVE create_entities_loop(_, _, _, _)
create_entities_loop(acc, entities, existing_names, fault) ==
    IF entities = <<>> THEN acc
    ELSE LET entity == Head(entities)
         IN  IF entity.name \notin existing_names
             THEN LET a1 == emit_event(acc, "entity_created",
                                [name |-> entity.name,
                                 entityType |-> entity.entityType,
                                 observations |-> entity.observations], fault)
                  IN  IF a1.err THEN a1
                      ELSE create_entities_loop(
                              [a1 EXCEPT !.graph.entities = Append(@, entity)],
                              Tail(entities), existing_names, fault)
             ELSE create_entities_loop(acc, Tail(entities), existing_names, fault)

\* create_entities that keeps only the entities of this call
create_entities_replacing(g, entities, fault) ==
    create_entities_loop(StartCall([g EXCEPT !.entities = <<>>]), entities,
                         {e.name : e \in Range(g.entities)}, fault)

\* crud::create_entities, up to the release of the write lock
create_entities(g, entities, fault) ==
    create_entities_loop(StartCall(g), entities,
                         {e.name : e \in Range(g.entities)}, fault)

RECURSIVE create_relations_loop(_, _, _, _, _)
create_relations_loop(acc, relations, entity_names, existing_relations, fault) ==
    IF relations = <<>> THEN acc
    ELSE LET relation == Head(relations)
         IN  IF /\ relation.from \in entity_names
                /\ relation.to \in entity_names
                /\ RelationKey(relation) \notin existing_relations
             THEN LET a1 == emit_event(acc, "relation_created",
                                [from |-> relation.from, to |-> relation.to,
                                 relationType |-> relation.relationType], fault)
                  IN  IF a1.err THEN a1
                      ELSE create_relations_loop(
                              [a1 EXCEPT !.graph.relations = Append(@, relation)],
                              Tail(relations), entity_names, existing_relations, fault)
             ELSE create_relations_loop(acc, Tail(relations), entity_names,
                                        existing_relations, fault)

\* crud::create_relations, up to the release of the write lock
create_relations(g, relations, fault) ==
    create_relations_loop(StartCall(g), relations,
                          {e.name : e \in Range(g.entities)},
                          {RelationKey(r) : r \in Range(g.relations)}, fault)

RECURSIVE add_contents_loop(_, _, _, _, _)
\* the inner loop of add_observations over obs.contents for the entity at index i
add_contents_loop(acc, i, contents, existing, fault) ==
    IF contents = <<>> THEN acc
    ELSE LET content == Head(contents)
         IN  IF content \notin existing
             THEN LET a1 == emit_event(acc, "observation_added",
                                [entity |-> acc.graph.entities[i].name,
                                 observation |-> content], fault)
                  IN  IF a1.err THEN a1
                      ELSE add_contents_loop(
                              [a1 EXCEPT !.graph.entities[i].observations =
                                              Append(@, content)],
                              i, Tail(contents), existing, fault)
             ELSE add_contents_loop(acc, i, Tail(contents), existing, fault)

RECURSIVE add_observations_loop(_, _, _)
add_observations_loop(acc, observations, fault) ==
    IF observations = <<>> THEN acc
    ELSE LET obs == Head(observations)
             i == FindEntity(acc.graph.entities, obs.entityName)
         IN  IF i = 0 THEN add_observations_loop(acc, Tail(observations), fault)
             ELSE LET a1 == add_contents_loop(acc, i, obs.contents,
                                Range(acc.graph.entities[i].observations), fault)
                  IN  IF a1.err THEN a1
                      ELSE add_observations_loop(a1, Tail(observations), fault)

\* crud::add_observations, up to the release of the write lock
add_observations(g, observations, fault) ==
    add_observations_loop(StartCall(g), observations, fault)

RECURSIVE delete_entities_emit(_, _, _)
\* the event loop of delete_entities: one entity_deleted per listed name that exists
delete_entities_emit(acc, entity_names, fault) ==
    IF entity_names = <<>> THEN acc
    ELSE IF \E e \in Range(acc.graph.entities) : e.name = Head(entity_names)
         THEN LET a1 == emit_event(acc, "entity_deleted",
                                   [name |-> Head(entity_names)], fault)
              IN  IF a1.err THEN a1
                  ELSE delete_entities_emit(a1, Tail(entity_names), fault)
         ELSE delete_entities_emit(acc, Tail(entity_names), fault)

\* delete_entities_retain without the retain call on the relations
delete_entities_retain_entities_only(g, names_to_delete) ==
    [g EXCEPT !.entities =
        Filter(@, {e \in Range(@) : e.name \notin names_to_delete})]

\* the two retain calls of delete_entities
delete_entities_retain(g, names_to_delete) ==
    [entities |-> Filter(g.entities,
                    {e \in Range(g.entities) : e.name \notin names_to_delete}),
     relations |-> Filter(g.relations,
                    {r \in Range(g.relations) :
                        r.from \notin names_to_delete /\ r.to \notin names_to_delete})]

\* crud::delete_entities, up to the release of the write lock
delete_entities(g, entity_names, fault) ==
    LET a1 == delete_entities_emit(StartCall(g), entity_names, fault)
    IN  IF a1.err THEN a1
        ELSE [a1 EXCEPT !.graph = delete_entities_retain(g, Range(entity_names))]

RECURSIVE delete_observations_emit(_, _, _, _)
\* the event loop of one deletion: one observation_removed per listed string present
delete_observations_emit(acc, i, observations, fault) ==
    IF observations = <<>> THEN acc
    ELSE IF Head(observations) \in Range(acc.graph.entities[i].observations)
         THEN LET a1 == emit_event(acc, "observation_removed",
                                [entity |-> acc.graph.entities[i].name,
                                 observation |-> Head(observations)], fault)
              IN  IF a1.err THEN a1
                  ELSE delete_observations_emit(a1, i, Tail(observations), fault)
         ELSE delete_observations_emit(acc, i, Tail(observations), fault)

RECURSIVE delete_observations_loop(_, _, _)
delete_observations_loop(acc, deletions, fault) ==
    IF deletions = <<>> THEN acc
    ELSE LET deletion == Head(deletions)
             i == FindEntity(acc.graph.entities, deletion.entityName)
         IN  IF i = 0 THEN delete_observations_loop(acc, Tail(deletions), fault)
             ELSE LET a1 == delete_observations_emit(acc, i,
                                                     deletion.observations, fault)
                  IN  IF a1.err THEN a1
                      ELSE delete_observations_loop(
                              [a1 EXCEPT !.graph.entities[i].observations =
                                  Filter(@, Range(@) \ Range(deletion.observations))],
                              Tail(deletions), fault)

\* crud::delete_observations, up to the release of the write lock
delete_observations(g, deletions, fault) ==
    delete_observations_loop(StartCall(g), deletions, fault)

RECURSIVE delete_relations_emit(_, _, _)
\* the event loop of delete_relations: one relation_deleted per listed relation present
delete_relations_emit(acc, relations, fault) ==
    IF relations = <<>> THEN acc
    ELSE IF \E r \in Range(acc.graph.relations) : SameRelation(r, Head(relations))
         THEN LET a1 == emit_event(acc, "relation_deleted",
                                [from |-> Head(relations).from,
                                 to |-> Head(relations).to,
                                 relationType |-> Head(relations).relationType], fault)
              IN  IF a1.err THEN a1
                  ELSE delete_relations_emit(a1, Tail(relations), fault)
         ELSE delete_relations_emit(acc, Tail(relations), fault)

\* crud::delete_relations, up to the release of the write lock
delete_relations(g, relations, fault) ==
    LET a1 == delete_relations_emit(StartCall(g), relations, fault)
        to_delete == {RelationKey(r) : r \in Range(relations)}
    IN  IF a1.err THEN a1
        ELSE [a1 EXCEPT !.graph.relations =
                Filter(@, {r \in Range(@) : RelationKey(r) \notin to_delete})]

(***************************************************************************)
(* Inputs of the mutation calls, over the entity names N.                  *)
(***************************************************************************)
EntityInputs(N) == {Entity(n, t, o) : n \in N, t \in Types, o \in SeqsOf(Obs, 0, 1)}
RelationInputs(N) == {Relation(f, t, rt) : f \in N, t \in N, rt \in RelTypes}
ObservationInputs(N) == [entityName : N, contents : SeqsOf(Obs, 1, MaxBatch)]
DeletionInputs(N) == [entityName : N, observations : SeqsOf(Obs, 1, MaxBatch)]

(***************************************************************************)
(* State.                                                                  *)
(***************************************************************************)
VARIABLES
    graph,        \* KnowledgeBase.graph: [entities, relations]
    store,        \* EventStore: next_event_id, events_since_snapshot,
                  \* last_snapshot_event_id, config.snapshot_threshold
    events_file,  \* data/events.jsonl: the sequence of event lines
    archive,      \* data/archive: set of files [lo, hi, lines], named events_<lo>_to_<hi>.jsonl
    latest,       \* data/snapshots/latest.jsonl
    previous,     \* data/snapshots/previous.jsonl
    temp,         \* data/snapshots/latest.tmp
    graph_lock,   \* the RwLock of the graph: [writer, readers]
    store_lock,   \* the Mutex of the event store: the thread holding it, or NoThread
    pc,           \* where each thread is in its Knowledge Base call
    snap_id,      \* last_event_id of the snapshot each thread is taking
    local,        \* each thread's own data: step (how far it is in its sequence of
                  \* calls), entities (the entities its read call has collected),
                  \* during (history: the graphs that held since its read call began)
    written,      \* history: every line ever written to events.jsonl, in write order
    taken,        \* history: the snapshot files of the create_snapshot_with_backup
                  \* calls that returned Ok, in the order they returned
    memory_file,  \* the legacy memory.jsonl: its lines (none when it is missing)
    broadcaster,  \* the global EventBroadcaster: sequence_counter, event_history, and
                  \* tx: the messages sent on its channel, in the order of the sends
    app_state,    \* AppState: sequence_counter, event_tx (the messages sent on its
                  \* channel, in the order of the sends) and received (the messages
                  \* rx.recv() has returned to a subscriber connected from the start)
    lastCall      \* history: the call that has just returned, if the last step was its
                  \* return: op, ok (it returned Ok), names (the names a delete_entities
                  \* call was given), relations (how many relations the graph had before)

vars == <<graph, store, events_file, archive, latest, previous, temp,
          graph_lock, store_lock, pc, snap_id, local, written, taken, memory_file,
          broadcaster, app_state, lastCall>>

disk == <<events_file, archive, latest, previous, temp>>
locks == <<graph_lock, store_lock>>
channels == <<broadcaster, app_state>>

\* EventBroadcaster::new
EventBroadcaster == [sequence_counter |-> 0, event_history |-> <<>>, tx |-> <<>>]
\* AppState::new
AppState == [sequence_counter |-> 0, event_tx |-> <<>>, received |-> <<>>]

NoCall == [op |-> "none", ok |-> TRUE, names |-> {}, relations |-> 0]
NoLock == [writer |-> NoThread, readers |-> {}]
NoLocal == [step |-> 0, entities |-> <<>>, during |-> {}]

\* EventStore::with_config
with_config(threshold) ==
    [next_event_id |-> 1, events_since_snapshot |-> 0,
     last_snapshot_event_id |-> 0, snapshot_threshold |-> threshold]

SnapshotFile(id, g) ==
    [exists |-> TRUE, last_event_id |-> id,
     entities |-> g.entities, relations |-> g.relations]

\* EventStore::should_snapshot
should_snapshot(st) == st.events_since_snapshot >= st.snapshot_threshold

\* replaying every line ever written rebuilds exactly the graph g
InSync(g, w) == ApplyAll(EmptyGraph, w) = g

(***************************************************************************)
(* EventStore::initialize on the files of the data directory: the graph    *)
(* and the store fields a starting process ends up with.                   *)
(***************************************************************************)
initialize(st0, snapshot, evs) ==
    IF snapshot.exists
    THEN LET last == snapshot.last_event_id
             tail == load_events_after(evs, last)
             max_event_id == MaxId(last, tail)
             next0 == last + 1
         IN  [graph |-> ApplyAll([entities |-> snapshot.entities,
                                  relations |-> snapshot.relations], tail),
              store |-> [st0 EXCEPT
                         !.next_event_id =
                            IF max_event_id > next0 THEN max_event_id + 1 ELSE next0,
                         !.events_since_snapshot = max_event_id - last,
                         !.last_snapshot_event_id = last]]
    ELSE LET max_event_id == MaxId(0, evs)
         IN  [graph |-> ApplyAll(EmptyGraph, evs),
              store |-> IF max_event_id > 0
                        THEN [st0 EXCEPT !.next_event_id = max_event_id + 1,
                                         !.events_since_snapshot = max_event_id]
                        ELSE st0]

(***************************************************************************)
(* LogRotation::rotate_after_snapshot on the files: the new events.jsonl   *)
(* and archive directory.  File::create replaces an archive of the same    *)
(* name.                                                                   *)
(***************************************************************************)
\* rotate_after_snapshot that rewrites events.jsonl and writes no archive file
rotate_after_snapshot_no_archive(evs, arch, snapshot_event_id) ==
    [events_file |-> Filter(evs, {e \in Range(evs) : e.eventId > snapshot_event_id}),
     archive |-> arch]

rotate_after_snapshot(evs, arch, snapshot_event_id) ==
    LET archive_lines == Filter(evs, {e \in Range(evs) : e.eventId <= snapshot_event_id})
        keep_lines == Filter(evs, {e \in Range(evs) : e.eventId > snapshot_event_id})
    IN  IF archive_lines = <<>>
        THEN [events_file |-> evs, archive |-> arch]
        ELSE LET lo == archive_lines[1].eventId
             IN  [events_file |-> keep_lines,
                  archive |-> {f \in arch : ~(f.lo = lo /\ f.hi = snapshot_event_id)}
                              \cup {[lo |-> lo, hi |-> snapshot_event_id,
                                     lines |-> archive_lines]}]

(***************************************************************************)
(* Initial states: a process started on an empty data directory, with the  *)
(* default configuration or with a small snapshot threshold.               *)
(***************************************************************************)
InitWith(threshold) ==
    /\ graph = EmptyGraph
    /\ store = with_config(threshold)
    /\ events_file = <<>>
    /\ archive = {}
    /\ latest = NoFile
    /\ previous = NoFile
    /\ temp = NoFile
    /\ graph_lock = NoLock
    /\ store_lock = NoThread
    /\ pc = [t \in Threads |-> "idle"]
    /\ snap_id = [t \in Threads |-> 0]
    /\ local = [t \in Threads |-> NoLocal]
    /\ written = <<>>
    /\ taken = <<>>
    /\ memory_file = <<>>
    /\ broadcaster = EventBroadcaster
    /\ app_state = AppState
    /\ lastCall = NoCall

Init == InitWith(DefaultThreshold)

InitStore == InitWith(SmallThreshold)

(***************************************************************************)
(* A mutation call: kb.graph.write(), the body, and the return.            *)
(***************************************************************************)
\* let mut graph = kb.graph.write().unwrap()
WriteGraph(t) ==
    /\ pc[t] = "idle"
    /\ graph_lock = NoLock
    /\ graph_lock' = [graph_lock EXCEPT !.writer = t]
    /\ pc' = [pc EXCEPT ![t] = "locked"]
    /\ lastCall' = NoCall
    /\ UNCHANGED <<graph, store, disk, store_lock, snap_id, written, taken, memory_file, channels>>

\* a mutation call of a thread that makes calls in any order
LockGraph(t) ==
    /\ WriteGraph(t)
    /\ UNCHANGED local

RECURSIVE Lines(_, _)
\* the lines the emit_event calls of one mutation put into events.jsonl, the
\* first call getting event id `id`
Lines(emitted, id) ==
    IF emitted = <<>> THEN <<>>
    ELSE (IF Head(emitted).written
          THEN <<Event(id, Head(emitted).eventType, Head(emitted).data)>>
          ELSE <<>>) \o Lines(Tail(emitted), id + 1)

\* the bound on the event ids and on the written lines of a process, by its
\* configuration
MaxEventId(st) ==
    IF st.snapshot_threshold = DefaultThreshold THEN MaxEvents ELSE MaxStoreEvents

\* The effect of a mutation body whose run is res, on the store, the log and the
\* graph, and its return: Ok goes on to maybe_create_snapshot, Err returns at once.
Return(t, op, res, names) ==
    LET n == Len(res.emitted)
        lines == Lines(res.emitted, store.next_event_id)
    IN  /\ pc[t] = "locked"
        /\ n > 0 => store_lock = NoThread
        /\ store.next_event_id + n - 1 <= MaxEventId(store)
        /\ Len(written) + Len(lines) <= MaxEventId(store)
        /\ graph' = res.graph
        /\ events_file' = events_file \o lines
        /\ written' = written \o lines
        /\ UNCHANGED <<taken, memory_file, channels>>
        /\ store' = [store EXCEPT
                        !.next_event_id = @ + n,
                        !.events_since_snapshot = @ + (IF res.err THEN n - 1 ELSE n)]
        /\ graph_lock' = NoLock
        /\ pc' = [pc EXCEPT ![t] = IF res.err THEN "idle" ELSE "post"]
        /\ local' = [u \in Threads |->
                        [local[u] EXCEPT !.during =
                            IF pc[u] = "open_read" THEN @ \cup {res.graph} ELSE @]]
        /\ lastCall' = [op |-> op, ok |-> ~res.err, names |-> names,
                        relations |-> Len(graph.relations)]
        /\ UNCHANGED <<archive, latest, previous, temp, store_lock, snap_id>>

\* the faults a call can meet: none, or one at an emit_event call it makes
FaultsOf(res0) ==
    {NoFault} \cup [at : 1..Len(res0.emitted), mode : {"open", "sync"}]

CreateEntitiesOver(t, N) ==
    \E entities \in SeqsOf(EntityInputs(N), 1, MaxBatch) :
        \E fault \in FaultsOf(create_entities(graph, entities, NoFault)) :
            Return(t, "create_entities", create_entities(graph, entities, fault), {})

CreateRelationsOver(t, N) ==
    \E relations \in SeqsOf(RelationInputs(N), 1, MaxBatch) :
        \E fault \in FaultsOf(create_relations(graph, relations, NoFault)) :
            Return(t, "create_relations", create_relations(graph, relations, fault), {})

AddObservationsOver(t, N) ==
    \E observations \in SeqsOf(ObservationInputs(N), 1, MaxBatch) :
        \E fault \in FaultsOf(add_observations(graph, observations, NoFault)) :
            Return(t, "add_observations",
                   add_observations(graph, observations, fault), {})

DeleteEntitiesOver(t, N) ==
    \E entity_names \in SeqsOf(N, 1, MaxBatch) :
        \E fault \in FaultsOf(delete_entities(graph, entity_names, NoFault)) :
            Return(t, "delete_entities",
                   delete_entities(graph, entity_names, fault), Range(entity_names))

DeleteObservationsOver(t, N) ==
    \E deletions \in SeqsOf(DeletionInputs(N), 1, MaxBatch) :
        \E fault \in FaultsOf(delete_observations(graph, deletions, NoFault)) :
            Return(t, "delete_observations",
                   delete_observations(graph, deletions, fault), {})

DeleteRelationsOver(t, N) ==
    \E relations \in SeqsOf(RelationInputs(N), 1, MaxBatch) :
        \E fault \in FaultsOf(delete_relations(graph, relations, NoFault)) :
            Return(t, "delete_relations", delete_relations(graph, relations, fault), {})

CreateEntities(t) == CreateEntitiesOver(t, Names)
CreateRelations(t) == CreateRelationsOver(t, Names)
AddObservations(t) == AddObservationsOver(t, Names)
DeleteEntities(t) == DeleteEntitiesOver(t, Names)
DeleteObservations(t) == DeleteObservationsOver(t, Names)
DeleteRelations(t) == DeleteRelationsOver(t, Names)

(***************************************************************************)
(* KnowledgeBase::maybe_create_snapshot, run by the thread whose mutation  *)
(* returned Ok, and SnapshotManager::create_snapshot_with_backup, one file *)
(* system call per step.                                                   *)
(***************************************************************************)
\* let store = event_store.lock().unwrap()
SnapLockStore(t) ==
    /\ pc[t] = "post"
    /\ store_lock = NoThread
    /\ store_lock' = t
    /\ pc' = [pc EXCEPT ![t] = "snap_check"]
    /\ UNCHANGED local
    /\ lastCall' = NoCall
    /\ UNCHANGED <<graph, store, disk, graph_lock, snap_id, written, taken, memory_file, channels>>

\* should_snapshot() is false: the store guard is dropped and the call returns
SnapSkip(t) ==
    /\ pc[t] = "snap_check"
    /\ ~should_snapshot(store)
    /\ store_lock' = NoThread
    /\ pc' = [pc EXCEPT ![t] = "idle"]
    /\ UNCHANGED local
    /\ lastCall' = NoCall
    /\ UNCHANGED <<graph, store, disk, graph_lock, snap_id, written, taken, memory_file, channels>>

\* should_snapshot() is true: self.graph.read(), last_event_id, drop(store)
SnapBegin(t) ==
    /\ pc[t] = "snap_check"
    /\ should_snapshot(store)
    /\ graph_lock.writer = NoThread
    /\ graph_lock' = [graph_lock EXCEPT !.readers = @ \cup {t}]
    /\ snap_id' = [snap_id EXCEPT ![t] =
                        IF store.next_event_id > 0 THEN store.next_event_id - 1 ELSE 0]
    /\ store_lock' = NoThread
    /\ pc' = [pc EXCEPT ![t] = "snap_write"]
    /\ UNCHANGED local
    /\ lastCall' = NoCall
    /\ UNCHANGED <<graph, store, disk, written, taken, memory_file, channels>>

\* Step 1: File::create(temp_path), the lines, sync_all
SnapWriteTemp(t) ==
    /\ pc[t] = "snap_write"
    /\ temp' = SnapshotFile(snap_id[t], graph)
    /\ pc' = [pc EXCEPT ![t] = "snap_backup"]
    /\ UNCHANGED local
    /\ lastCall' = NoCall
    /\ UNCHANGED <<graph, store, events_file, archive, latest, previous, locks,
                   snap_id, written, taken, memory_file, channels>>

\* an error of create_snapshot_with_backup: `?` returns it from the mutation call,
\* dropping the graph read guard
SnapFail(t) ==
    /\ graph_lock' = [graph_lock EXCEPT !.readers = @ \ {t}]
    /\ pc' = [pc EXCEPT ![t] = "idle"]
    /\ UNCHANGED <<latest, previous, temp>>

\* Step 2: if latest_path.exists()
SnapCheckLatest(t) ==
    /\ pc[t] = "snap_backup"
    /\ pc' = [pc EXCEPT ![t] = IF latest.exists THEN "snap_prev" ELSE "snap_install"]
    /\ UNCHANGED local
    /\ lastCall' = NoCall
    /\ UNCHANGED <<graph, store, disk, locks, snap_id, written, taken, memory_file, channels>>

\* if previous_path.exists() { fs::remove_file(&previous_path)? }
SnapRemovePrevious(t) ==
    /\ pc[t] = "snap_prev"
    /\ previous' = NoFile
    /\ pc' = [pc EXCEPT ![t] = "snap_move"]
    /\ UNCHANGED local
    /\ lastCall' = NoCall
    /\ UNCHANGED <<graph, store, events_file, archive, latest, temp, locks,
                   snap_id, written, taken, memory_file, channels>>

\* Step 2 deleting latest.jsonl instead of renaming it to previous.jsonl
SnapMoveLatestDiscarding(t) ==
    /\ pc[t] = "snap_move"
    /\ IF latest.exists
       THEN /\ latest' = NoFile
            /\ pc' = [pc EXCEPT ![t] = "snap_install"]
            /\ UNCHANGED <<previous, temp, graph_lock>>
       ELSE SnapFail(t)
    /\ UNCHANGED local
    /\ lastCall' = NoCall
    /\ UNCHANGED <<graph, store, events_file, archive, store_lock, snap_id, written,
                   taken, memory_file, channels>>

\* fs::rename(&latest_path, &previous_path)?
SnapMoveLatest(t) ==
    /\ pc[t] = "snap_move"
    /\ IF latest.exists
       THEN /\ previous' = latest
            /\ latest' = NoFile
            /\ pc' = [pc EXCEPT ![t] = "snap_install"]
            /\ UNCHANGED <<temp, graph_lock>>
       ELSE SnapFail(t)
    /\ UNCHANGED local
    /\ lastCall' = NoCall
    /\ UNCHANGED <<graph, store, events_file, archive, store_lock, snap_id, written, taken, memory_file, channels>>

\* Step 3: fs::rename(&temp_path, &latest_path)?
SnapInstall(t) ==
    /\ pc[t] = "snap_install"
    /\ IF temp.exists
       THEN /\ latest' = temp
            /\ temp' = NoFile
            /\ taken' = Append(taken, temp)
            /\ UNCHANGED <<memory_file, channels>>
            /\ pc' = [pc EXCEPT ![t] = "snap_rotate"]
            /\ UNCHANGED <<previous, graph_lock>>
       ELSE SnapFail(t) /\ UNCHANGED <<taken, memory_file, channels>>
    /\ UNCHANGED local
    /\ lastCall' = NoCall
    /\ UNCHANGED <<graph, store, events_file, archive, store_lock, snap_id, written>>

\* rotation.rotate_after_snapshot(last_event_id), then store.snapshot_created
\* under the store lock, then the graph read guard goes out of scope
SnapRotate(t) ==
    /\ pc[t] = "snap_rotate"
    /\ store_lock = NoThread
    /\ LET r == rotate_after_snapshot(events_file, archive, snap_id[t])
       IN  /\ events_file' = r.events_file
           /\ archive' = r.archive
    /\ store' = [store EXCEPT !.last_snapshot_event_id = snap_id[t],
                              !.events_since_snapshot = 0]
    /\ graph_lock' = [graph_lock EXCEPT !.readers = @ \ {t}]
    /\ pc' = [pc EXCEPT ![t] = "idle"]
    /\ UNCHANGED local
    /\ lastCall' = [NoCall EXCEPT !.op = "rotate_after_snapshot"]
    /\ UNCHANGED <<graph, latest, previous, temp, store_lock, snap_id, written, taken, memory_file, channels>>

(***************************************************************************)
(* The process stops at any instant and a new one starts on the same data  *)
(* directory: new_with_event_sourcing runs EventStore::initialize.         *)
(***************************************************************************)
Restart(evs) ==
    /\ LET r == initialize(with_config(store.snapshot_threshold), latest, evs)
       IN  /\ graph' = r.graph
           /\ store' = r.store
    /\ graph_lock' = NoLock
    /\ store_lock' = NoThread
    /\ pc' = [t \in Threads |-> "idle"]
    /\ snap_id' = [t \in Threads |-> 0]
    /\ local' = [t \in Threads |-> NoLocal]
    /\ lastCall' = [NoCall EXCEPT !.op = "initialize"]

\* the process stops between two steps
CrashRestart ==
    /\ Restart(events_file)
    /\ UNCHANGED <<disk, written, taken, memory_file, channels>>

\* the process stops inside rotate_after_snapshot, after the archive file is
\* written and before events.tmp is renamed over events.jsonl
CrashInRotate(t) ==
    /\ pc[t] = "snap_rotate"
    /\ archive' = rotate_after_snapshot(events_file, archive, snap_id[t]).archive
    /\ Restart(events_file)
    /\ UNCHANGED <<events_file, latest, previous, temp, written, taken, memory_file, channels>>

(***************************************************************************)
(* Spec: the Knowledge Base under concurrent mutation calls with the       *)
(* default configuration (no snapshot falls due within the bounds).        *)
(***************************************************************************)
Next ==
    \E t \in Threads :
        \/ LockGraph(t)
        \/ CreateEntities(t)
        \/ CreateRelations(t)
        \/ AddObservations(t)
        \/ DeleteEntities(t)
        \/ DeleteObservations(t)
        \/ DeleteRelations(t)
        \/ SnapLockStore(t)
        \/ SnapSkip(t)

Spec == Init /\ [][Next]_vars

(***************************************************************************)
(* SpecStore: the life of the store with a small snapshot threshold:       *)
(* create_entities, create_relations and delete_entities calls of one      *)
(* thread over one entity name, snapshots, rotation and restarts.          *)
(***************************************************************************)
StoreNames == {"a"}
StoreThreads == {"t1"}

NextStore ==
    \/ \E t \in StoreThreads :
        \/ LockGraph(t)
        \/ CreateEntitiesOver(t, StoreNames)
        \/ CreateRelationsOver(t, StoreNames)
        \/ DeleteEntitiesOver(t, StoreNames)
        \/ SnapLockStore(t)
        \/ SnapSkip(t)
        \/ SnapBegin(t)
        \/ SnapWriteTemp(t)
        \/ SnapCheckLatest(t)
        \/ SnapRemovePrevious(t)
        \/ SnapMoveLatest(t)
        \/ SnapInstall(t)
        \/ SnapRotate(t)
        \/ CrashInRotate(t)
    \/ CrashRestart

SpecStore == InitStore /\ [][NextStore]_vars

(***************************************************************************)
(* SpecApply: the replay loop of a starting process.  The graph has been   *)
(* loaded from a snapshot of any content and the events of the log are     *)
(* applied to it one by one.                                               *)
(***************************************************************************)
\* length of the entity list and of the relation list of a loaded graph
MaxLoaded == 2

UpdatedTypes == {"t", "u"}

LoadedGraphs(len) ==
    [entities : SeqsOf(EntityInputs(Names), 0, len),
     relations : SeqsOf(RelationInputs(Names), 0, len)]

\* the events apply_event is given: every EventType with its data
EventInputs ==
    {Event(1, "entity_created",
           [name |-> x.name, entityType |-> x.entityType,
            observations |-> x.observations]) : x \in EntityInputs(Names)}
    \cup {Event(1, "entity_updated", d) :
            d \in [name : Names, entityType : UpdatedTypes \cup {NoType}]}
    \cup {Event(1, "entity_deleted", [name |-> n]) : n \in Names}
    \cup {Event(1, ty, d) : ty \in {"observation_added", "observation_removed"},
                            d \in [entity : Names, observation : Obs]}
    \cup {Event(1, ty, [from |-> r.from, to |-> r.to,
                        relationType |-> r.relationType]) :
            ty \in {"relation_created", "relation_deleted"},
            r \in RelationInputs(Names)}

\* a starting process that has loaded the graph g and is in its replay loop
InitLoaded(g) ==
    /\ graph = g
    /\ store = with_config(DefaultThreshold)
    /\ events_file = <<>>
    /\ archive = {}
    /\ latest = NoFile
    /\ previous = NoFile
    /\ temp = NoFile
    /\ graph_lock = NoLock
    /\ store_lock = NoThread
    /\ pc = [t \in Threads |-> "replay"]
    /\ snap_id = [t \in Threads |-> 0]
    /\ local = [t \in Threads |-> NoLocal]
    /\ written = <<>>
    /\ taken = <<>>
    /\ memory_file = <<>>
    /\ broadcaster = EventBroadcaster
    /\ app_state = AppState
    /\ lastCall = NoCall

InitApply == \E g \in LoadedGraphs(MaxLoaded) : InitLoaded(g)

\* one iteration of the replay loop, Self::apply_event(entities, relations, event)?,
\* on an event of E; the graph stays within len entities and len relations
ReplayEventOf(E, len) ==
    \E e \in E :
        /\ \A t \in Threads : pc[t] = "replay"
        /\ Len(apply_event(graph, e).entities) <= len
        /\ Len(apply_event(graph, e).relations) <= len
        /\ graph' = apply_event(graph, e)
        /\ UNCHANGED local
        /\ lastCall' = [op |-> "apply_event", ok |-> TRUE, names |-> {},
                        relations |-> Len(graph.relations), event |-> e]
        /\ UNCHANGED <<store, disk, locks, pc, snap_id, written, taken, memory_file, channels>>

ReplayEvent == ReplayEventOf(EventInputs, MaxLoaded)

\* the replay loop ends: initialize returns and the process serves calls
ReplayDone ==
    /\ \A t \in Threads : pc[t] = "replay"
    /\ pc' = [t \in Threads |-> "idle"]
    /\ UNCHANGED local
    /\ lastCall' = NoCall
    /\ UNCHANGED <<graph, store, disk, locks, snap_id, written, taken, memory_file, channels>>

NextApply == ReplayEvent \/ ReplayDone

SpecApply == InitApply /\ [][NextApply]_vars

(***************************************************************************)
(* SpecDelete: a starting process that has loaded a graph of any content   *)
(* replays entity_deleted events and then serves delete_entities calls.    *)
(***************************************************************************)
\* length of the entity list and of the relation list of a rebuilt graph
MaxRebuilt == 1

InitDelete == \E g \in LoadedGraphs(MaxRebuilt) : InitLoaded(g)

ReplayDeleted ==
    ReplayEventOf({e \in EventInputs : e.eventType = "entity_deleted"}, MaxRebuilt)

NextDelete ==
    \/ ReplayDeleted
    \/ ReplayDone
    \/ \E t \in StoreThreads :
        \/ LockGraph(t)
        \/ DeleteEntities(t)
        \/ SnapLockStore(t)
        \/ SnapSkip(t)

SpecDelete == InitDelete /\ [][NextDelete]_vars

(***************************************************************************)
(* SpecLive: two threads with the small snapshot threshold, each making    *)
(* create_entities and delete_entities calls that have an event to emit,   *)
(* followed by maybe_create_snapshot. A thread that holds a lock and can   *)
(* take its next step takes it (weak fairness per thread).                 *)
(***************************************************************************)
\* a call starts only while the event ids and lines it may need are within the
\* bounds, so that no call waits on a bound
LockGraphWithin(t) ==
    /\ store.next_event_id + MaxBatch - 1 <= MaxEventId(store)
    /\ Len(written) + MaxBatch <= MaxEventId(store)
    /\ LockGraph(t)

\* create_entities with an input that reaches emit_event, no append failing
CreateEntitiesEmitting(t) ==
    \E entities \in SeqsOf(EntityInputs(StoreNames), 1, MaxBatch) :
        LET res == create_entities(graph, entities, NoFault)
        IN  /\ Len(res.emitted) > 0
            /\ Return(t, "create_entities", res, {})

\* delete_entities with an input that reaches emit_event, no append failing
DeleteEntitiesEmitting(t) ==
    \E entity_names \in SeqsOf(StoreNames, 1, MaxBatch) :
        LET res == delete_entities(graph, entity_names, NoFault)
        IN  /\ Len(res.emitted) > 0
            /\ Return(t, "delete_entities", res, Range(entity_names))

ThreadLive(t) ==
    \/ LockGraphWithin(t)
    \/ CreateEntitiesEmitting(t)
    \/ DeleteEntitiesEmitting(t)
    \/ SnapLockStore(t)
    \/ SnapSkip(t)
    \/ SnapBegin(t)
    \/ SnapWriteTemp(t)
    \/ SnapCheckLatest(t)
    \/ SnapRemovePrevious(t)
    \/ SnapMoveLatest(t)
    \/ SnapInstall(t)
    \/ SnapRotate(t)

NextLive == \E t \in Threads : ThreadLive(t)

SpecLive ==
    /\ InitStore
    /\ [][NextLive]_vars
    /\ \A t \in Threads : WF_vars(ThreadLive(t))

(***************************************************************************)
(* SpecInserts: every thread runs the sequence of test_concurrent_access:  *)
(* create_entities with one entity of its own name, read_graph,            *)
(* add_observations to its own entity. local[t].step counts the calls the  *)
(* thread has begun; a thread has finished when step is LastStep and it    *)
(* is idle.                                                                *)
(***************************************************************************)
OwnName(t) == IF t = "t1" THEN "a" ELSE "b"
CreatedObs(t) == "x"
AddedObs(t) == "y"
LastStep == 3

\* the thread goes on to its next call
Advance(t) == local' = [local EXCEPT ![t].step = @ + 1]

\* kb.graph.write() of the thread's create_entities or add_observations call
OwnLockGraph(t) ==
    /\ local[t].step \in {0, 2}
    /\ WriteGraph(t)
    /\ Advance(t)

\* kb_clone.create_entities(vec![entity])
CreateOwn(t) ==
    /\ local[t].step = 1
    /\ Return(t, "create_entities",
              create_entities(graph,
                              <<Entity(OwnName(t), "t", <<CreatedObs(t)>>)>>, NoFault),
              {})

\* kb_clone.read_graph(None, None): the clone of the graph under the read lock
ReadGraph(t) ==
    /\ pc[t] = "idle"
    /\ local[t].step = 1
    /\ graph_lock.writer = NoThread
    /\ Advance(t)
    /\ lastCall' = [NoCall EXCEPT !.op = "read_graph",
                                  !.names = {e.name : e \in Range(graph.entities)}]
    /\ UNCHANGED <<graph, store, disk, locks, pc, snap_id, written, taken, memory_file, channels>>

\* kb_clone.add_observations(vec![obs])
AddOwn(t) ==
    /\ local[t].step = 3
    /\ Return(t, "add_observations",
              add_observations(graph,
                               <<[entityName |-> OwnName(t),
                                  contents |-> <<AddedObs(t)>>]>>, NoFault),
              {})

NextInserts ==
    \E t \in Threads :
        \/ OwnLockGraph(t)
        \/ CreateOwn(t)
        \/ ReadGraph(t)
        \/ AddOwn(t)
        \/ SnapLockStore(t)
        \/ SnapSkip(t)
        \/ SnapBegin(t)
        \/ SnapWriteTemp(t)
        \/ SnapCheckLatest(t)
        \/ SnapRemovePrevious(t)
        \/ SnapMoveLatest(t)
        \/ SnapInstall(t)
        \/ SnapRotate(t)

SpecInserts == InitStore /\ [][NextInserts]_vars

(***************************************************************************)
(* SpecReads: open_nodes calls next to create_entities, add_observations   *)
(* and create_relations calls, default configuration. open_nodes collects  *)
(* the entities first (from the search index, or from a load_graph() clone *)
(* when the index lock fails) and the relations from a second load_graph() *)
(* clone; both are taken to show the graph as it is when no writer holds   *)
(* the lock.                                                               *)
(***************************************************************************)
\* query::open_nodes, the matching entities in graph order
open_nodes_entities(g, names) ==
    Filter(g.entities, {e \in Range(g.entities) : e.name \in names})

\* query::open_nodes, the relations between the collected entities
open_nodes_relations(g, entities) ==
    LET entity_names == {e.name : e \in Range(entities)}
    IN  Filter(g.relations,
               {r \in Range(g.relations) :
                    r.from \in entity_names /\ r.to \in entity_names})

\* index.get_entities(&name_set), or the fallback load_graph()
OpenNodesEntities(t) ==
    /\ pc[t] = "idle"
    /\ graph_lock.writer = NoThread
    /\ pc' = [pc EXCEPT ![t] = "open_read"]
    /\ local' = [local EXCEPT ![t].entities = open_nodes_entities(graph, StoreNames),
                              ![t].during = {graph}]
    /\ lastCall' = NoCall
    /\ UNCHANGED <<graph, store, disk, locks, snap_id, written, taken, memory_file, channels>>

\* let graph = kb.load_graph()?, the relation filter and the return
OpenNodesRelations(t) ==
    /\ pc[t] = "open_read"
    /\ graph_lock.writer = NoThread
    /\ pc' = [pc EXCEPT ![t] = "idle"]
    /\ local' = [local EXCEPT ![t] = NoLocal]
    /\ lastCall' = [op |-> "open_nodes", ok |-> TRUE, names |-> StoreNames,
                    entities |-> local[t].entities,
                    relations |-> open_nodes_relations(graph, local[t].entities),
                    during |-> local[t].during]
    /\ UNCHANGED <<graph, store, disk, locks, snap_id, written, taken, memory_file, channels>>

NextReads ==
    \E t \in Threads :
        \/ LockGraph(t)
        \/ CreateEntitiesOver(t, StoreNames)
        \/ AddObservationsOver(t, StoreNames)
        \/ CreateRelationsOver(t, StoreNames)
        \/ SnapLockStore(t)
        \/ SnapSkip(t)
        \/ OpenNodesEntities(t)
        \/ OpenNodesRelations(t)

SpecReads == Init /\ [][NextReads]_vars

(***************************************************************************)
(* Text.  A string is the sequence of its characters, so that lowercasing, *)
(* splitting into tokens and substring search are computed as the code     *)
(* computes them.                                                          *)
(***************************************************************************)
UpperCase ==
    <<"A","B","C","D","E","F","G","H","I","J","K","L","M">>
        \o <<"N","O","P","Q","R","S","T","U","V","W","X","Y","Z">>
LowerCase ==
    <<"a","b","c","d","e","f","g","h","i","j","k","l","m">>
        \o <<"n","o","p","q","r","s","t","u","v","w","x","y","z">>

\* str::to_lowercase
to_lowercase(text) ==
    [i \in 1..Len(text) |->
        IF \E k \in 1..Len(UpperCase) : UpperCase[k] = text[i]
        THEN LowerCase[CHOOSE k \in 1..Len(UpperCase) : UpperCase[k] = text[i]]
        ELSE text[i]]

\* str::contains
str_contains(text, pattern) ==
    \E i \in 0..Len(text) :
        /\ i + Len(pattern) <= Len(text)
        /\ SubSeq(text, i + 1, i + Len(pattern)) = pattern

\* char::is_whitespace and char::is_ascii_punctuation (of the 32 punctuation
\* characters the backquote is not listed: no text of the model has one)
Whitespace == {" ", "\t", "\n", "\r"}
AsciiPunctuation ==
    {"!", "\"", "#", "$", "%", "&", "'", "(", ")", "*", "+", ",", "-", ".", "/", ":",
     ";", "<", "=", ">", "?", "@", "[", "\\", "]", "^", "_", "{", "|", "}", "~"}

\* tokenize: the lowercased text split at whitespace and punctuation, the
\* pieces shorter than two characters dropped
tokenize(text) ==
    LET lower == to_lowercase(text)
        split(i) == i = 0 \/ i = Len(lower) + 1 \/ lower[i] \in Whitespace \cup AsciiPunctuation
    IN  {SubSeq(lower, i, j) : <<i, j>> \in
            {p \in (1..Len(lower)) \X (1..Len(lower)) :
                /\ p[2] - p[1] + 1 >= 2
                /\ split(p[1] - 1) /\ split(p[2] + 1)
                /\ \A k \in p[1]..p[2] : ~split(k)}}

\* search/synonyms.rs SYNONYM_GROUPS
SYNONYM_GROUPS ==
    <<<<<<"c","o","d","e","r">>,
        <<"p","r","o","g","r","a","m","m","e","r">>,
        <<"d","e","v","e","l","o","p","e","r">>,
        <<"e","n","g","i","n","e","e","r">>,
        <<"d","e","v">>,
        <<"s","o","f","t","w","a","r","e"," ","e","n","g","i","n","e","e","r">>,
        <<"s","o","f","t","w","a","r","e"," ","d","e","v","e","l","o","p","e","r">>>>,
      <<<<"f","r","o","n","t","e","n","d">>,
        <<"f","r","o","n","t","-","e","n","d">>,
        <<"u","i"," ","d","e","v","e","l","o","p","e","r">>,
        <<"c","l","i","e","n","t","-","s","i","d","e">>>>,
      <<<<"b","a","c","k","e","n","d">>,
        <<"b","a","c","k","-","e","n","d">>,
        <<"s","e","r","v","e","r","-","s","i","d","e">>,
        <<"a","p","i"," ","d","e","v","e","l","o","p","e","r">>>>,
      <<<<"f","u","l","l","s","t","a","c","k">>,
        <<"f","u","l","l","-","s","t","a","c","k">>,
        <<"f","u","l","l"," ","s","t","a","c","k">>>>,
      <<<<"d","e","v","o","p","s">>,
        <<"s","r","e">>,
        <<"i","n","f","r","a","s","t","r","u","c","t","u","r","e">>,
        <<"p","l","a","t","f","o","r","m"," ","e","n","g","i","n","e","e","r">>>>,
      <<<<"b","u","g">>,
        <<"i","s","s","u","e">>,
        <<"d","e","f","e","c","t">>,
        <<"e","r","r","o","r">>,
        <<"p","r","o","b","l","e","m">>,
        <<"f","a","u","l","t">>,
        <<"g","l","i","t","c","h">>>>,
      <<<<"f","i","x">>,
        <<"p","a","t","c","h">>,
        <<"h","o","t","f","i","x">>,
        <<"b","u","g","f","i","x">>,
        <<"r","e","p","a","i","r">>,
        <<"r","e","s","o","l","v","e">>>>,
      <<<<"f","e","a","t","u","r","e">>,
        <<"f","u","n","c","t","i","o","n","a","l","i","t","y">>,
        <<"c","a","p","a","b","i","l","i","t","y">>,
        <<"e","n","h","a","n","c","e","m","e","n","t">>>>,
      <<<<"t","a","s","k">>,
        <<"t","i","c","k","e","t">>,
        <<"w","o","r","k"," ","i","t","e","m">>,
        <<"s","t","o","r","y">>,
        <<"u","s","e","r"," ","s","t","o","r","y">>>>,
      <<<<"r","e","q","u","i","r","e","m","e","n","t">>,
        <<"s","p","e","c">>,
        <<"s","p","e","c","i","f","i","c","a","t","i","o","n">>,
        <<"r","e","q">>>>,
      <<<<"d","o","n","e">>,
        <<"c","o","m","p","l","e","t","e","d">>,
        <<"f","i","n","i","s","h","e","d">>,
        <<"r","e","s","o","l","v","e","d">>,
        <<"c","l","o","s","e","d">>>>,
      <<<<"p","e","n","d","i","n","g">>,
        <<"w","a","i","t","i","n","g">>,
        <<"b","l","o","c","k","e","d">>,
        <<"o","n"," ","h","o","l","d">>>>,
      <<<<"i","n"," ","p","r","o","g","r","e","s","s">>,
        <<"w","i","p">>,
        <<"o","n","g","o","i","n","g">>,
        <<"a","c","t","i","v","e">>,
        <<"w","o","r","k","i","n","g">>>>,
      <<<<"t","o","d","o">>,
        <<"t","o"," ","d","o">>,
        <<"p","l","a","n","n","e","d">>,
        <<"b","a","c","k","l","o","g">>>>,
      <<<<"c","r","i","t","i","c","a","l">>,
        <<"u","r","g","e","n","t">>,
        <<"p","0">>,
        <<"b","l","o","c","k","e","r">>,
        <<"s","h","o","w","s","t","o","p","p","e","r">>>>,
      <<<<"h","i","g","h">>,
        <<"i","m","p","o","r","t","a","n","t">>,
        <<"p","1">>>>,
      <<<<"m","e","d","i","u","m">>,
        <<"n","o","r","m","a","l">>,
        <<"p","2">>>>,
      <<<<"l","o","w">>,
        <<"m","i","n","o","r">>,
        <<"p","3">>>>,
      <<<<"m","i","l","e","s","t","o","n","e">>,
        <<"r","e","l","e","a","s","e">>,
        <<"v","e","r","s","i","o","n">>,
        <<"s","p","r","i","n","t">>>>,
      <<<<"d","e","a","d","l","i","n","e">>,
        <<"d","u","e"," ","d","a","t","e">>,
        <<"t","a","r","g","e","t"," ","d","a","t","e">>>>,
      <<<<"p","r","o","j","e","c","t">>,
        <<"r","e","p","o">>,
        <<"r","e","p","o","s","i","t","o","r","y">>,
        <<"c","o","d","e","b","a","s","e">>>>,
      <<<<"d","o","c">>,
        <<"d","o","c","s">>,
        <<"d","o","c","u","m","e","n","t","a","t","i","o","n">>,
        <<"r","e","a","d","m","e">>,
        <<"g","u","i","d","e">>>>,
      <<<<"a","p","i">>,
        <<"i","n","t","e","r","f","a","c","e">>,
        <<"e","n","d","p","o","i","n","t">>>>,
      <<<<"t","e","s","t">>,
        <<"t","e","s","t","i","n","g">>,
        <<"q","a">>,
        <<"q","u","a","l","i","t","y"," ","a","s","s","u","r","a","n","c","e">>>>,
      <<<<"u","n","i","t"," ","t","e","s","t">>,
        <<"u","n","i","t","t","e","s","t">>>>,
      <<<<"i","n","t","e","g","r","a","t","i","o","n"," ","t","e","s","t">>,
        <<"e","2","e">>,
        <<"e","n","d","-","t","o","-","e","n","d">>>>,
      <<<<"m","o","d","u","l","e">>,
        <<"c","o","m","p","o","n","e","n","t">>,
        <<"s","e","r","v","i","c","e">>,
        <<"p","a","c","k","a","g","e">>>>,
      <<<<"d","a","t","a","b","a","s","e">>,
        <<"d","b">>,
        <<"d","a","t","a","s","t","o","r","e">>,
        <<"s","t","o","r","a","g","e">>>>,
      <<<<"c","a","c","h","e">>,
        <<"c","a","c","h","i","n","g">>,
        <<"r","e","d","i","s">>,
        <<"m","e","m","c","a","c","h","e","d">>>>>>

\* get_synonyms: the group that has the lowercased query as a word, else the
\* first group with a word that the query contains or that contains the query,
\* else the query alone
get_synonyms(query) ==
    LET query_lower == to_lowercase(query)
        exact == {g \in 1..Len(SYNONYM_GROUPS) : query_lower \in Range(SYNONYM_GROUPS[g])}
        near == {g \in 1..Len(SYNONYM_GROUPS) :
                    \E word \in Range(SYNONYM_GROUPS[g]) :
                        str_contains(query_lower, word) \/ str_contains(word, query_lower)}
        first(S) == CHOOSE g \in S : \A h \in S : g <= h
    IN  IF exact # {} THEN SYNONYM_GROUPS[first(exact)]
        ELSE IF near # {} THEN SYNONYM_GROUPS[first(near)]
        ELSE <<query_lower>>

\* matches_with_synonyms
matches_with_synonyms(text, search_terms) ==
    \E i \in 1..Len(search_terms) : str_contains(to_lowercase(text), search_terms[i])

(***************************************************************************)
(* SearchIndex: inverted_index (token -> entity names), type_index         *)
(* (lowercased entity type -> entity names), entity_map (entity name ->    *)
(* entity) and entity_count; and the index the Knowledge Base reads in     *)
(* search_nodes and open_nodes.                                            *)
(***************************************************************************)
\* SearchIndex::new
EmptyIndex ==
    [inverted_index |-> <<>>, type_index |-> <<>>, entity_map |-> <<>>, entity_count |-> 0]

\* HashMap entry(k).or_default().insert(name), for every key k of keys
InsertAll(map, keys, name) ==
    [k \in DOMAIN map \cup keys |->
        (IF k \in DOMAIN map THEN map[k] ELSE {}) \cup (IF k \in keys THEN {name} ELSE {})]

\* the tokens of the observations of an entity
ObservationTokens(entity) ==
    UNION {tokenize(entity.observations[i]) : i \in 1..Len(entity.observations)}

\* SearchIndex::index_entity: entity_map.insert(name, entity), the tokens of the
\* name, the type, the tokens of the type and the tokens of the observations
index_entity(index, entity) ==
    [index EXCEPT
        !.entity_map =
            [n \in DOMAIN index.entity_map \cup {entity.name} |->
                IF n = entity.name THEN entity ELSE index.entity_map[n]],
        !.inverted_index =
            InsertAll(@, tokenize(entity.name) \cup tokenize(entity.entityType)
                            \cup ObservationTokens(entity), entity.name),
        !.type_index = InsertAll(@, {to_lowercase(entity.entityType)}, entity.name)]

\* set.remove(name) for every key of keys that the map has; with prune, a key
\* whose set becomes empty is removed from the map
RemoveAll(map, keys, name, prune) ==
    LET kept == {k \in DOMAIN map : ~(prune /\ k \in keys /\ map[k] \ {name} = {})}
    IN  [k \in kept |-> IF k \in keys THEN map[k] \ {name} ELSE map[k]]

\* SearchIndex::remove_entity: entity_map.remove(entity_name) and, for an entity
\* that was there, its name tokens, its type and its observation tokens
remove_entity(index, entity_name) ==
    IF entity_name \notin DOMAIN index.entity_map THEN index
    ELSE LET entity == index.entity_map[entity_name]
         IN  [index EXCEPT
                !.entity_map =
                    [n \in DOMAIN index.entity_map \ {entity_name} |-> index.entity_map[n]],
                !.inverted_index =
                    RemoveAll(RemoveAll(@, tokenize(entity.name), entity_name, TRUE),
                              ObservationTokens(entity), entity_name, FALSE),
                !.type_index =
                    RemoveAll(@, {to_lowercase(entity.entityType)}, entity_name, TRUE),
                !.entity_count = IF @ > 0 THEN @ - 1 ELSE 0]

\* SearchIndex::update_entity
update_entity(index, entity) == index_entity(remove_entity(index, entity.name), entity)

RECURSIVE index_entities(_, _)
index_entities(index, entities) ==
    IF entities = <<>> THEN index
    ELSE index_entities(index_entity(index, Head(entities)), Tail(entities))

\* SearchIndex::from_graph
from_graph(g) ==
    [index_entities(EmptyIndex, g.entities) EXCEPT !.entity_count = Len(g.entities)]

\* SearchIndex::search: the names under the lowercased query if it is a token,
\* otherwise the names under every token that contains it
search(index, query) ==
    LET query_lower == to_lowercase(query)
    IN  IF query_lower \in DOMAIN index.inverted_index
        THEN index.inverted_index[query_lower]
        ELSE UNION {index.inverted_index[token] :
                        token \in {k \in DOMAIN index.inverted_index :
                                        str_contains(k, query_lower)}}

\* SearchIndex::search_terms
search_terms(index, terms) == UNION {search(index, terms[i]) : i \in 1..Len(terms)}

\* SearchIndex::get_by_type
get_by_type(index, entity_type) ==
    IF to_lowercase(entity_type) \in DOMAIN index.type_index
    THEN index.type_index[to_lowercase(entity_type)]
    ELSE {}

\* SearchIndex::contains
contains(index, name) == name \in DOMAIN index.entity_map

\* SearchIndex::get_entity, of a name the index contains
get_entity(index, name) == index.entity_map[name]

\* kb.search_index as query.rs reads it, in a process started on an empty data
\* directory: the index of the graph the process started with. No function of
\* crud.rs, and no other code of the Knowledge Base, writes to it.
search_index == from_graph(EmptyGraph)

(***************************************************************************)
(* SpecInfer: InferenceEngine::infer with its one rule,                    *)
(* TransitiveDependencyRule::apply, one step per entry taken from the BFS  *)
(* queue. A confidence is kept exactly, as the pair [num, den] standing    *)
(* for num / den, every decay factor being a multiple of 1/20.             *)
(***************************************************************************)
\* the relations of an input graph are at most MaxInferRelations
MaxInferRelations == 2
\* InferenceEngine::new: with_max_depth(3)
DefaultMaxDepth == 3
\* the denominator of the decay factors and of min_confidence
Twentieths == 20

InferNames == {"a", "b", "c", "d"}
InferRelTypes == {"depends_on", "relates_to"}
InferThread == "t1"
\* min_confidence, in twentieths: 0.0 and 0.65
InferThresholds == {0, 13}

\* decay factors of which the first is above 1
get_decay_factor_growing(relation_type) ==
    CASE relation_type \in {"depends_on", "contains", "part_of"} -> 21
      [] relation_type \in {"implements", "fixes", "caused_by"} -> 18
      [] relation_type \in {"affects", "assigned_to", "blocked_by"} -> 17
      [] relation_type \in {"relates_to", "supersedes", "requires"} -> 14
      [] OTHER -> 12

\* rules::get_decay_factor, in twentieths
get_decay_factor(relation_type) ==
    CASE relation_type \in {"depends_on", "contains", "part_of"} -> 19
      [] relation_type \in {"implements", "fixes", "caused_by"} -> 18
      [] relation_type \in {"affects", "assigned_to", "blocked_by"} -> 17
      [] relation_type \in {"relates_to", "supersedes", "requires"} -> 14
      [] OTHER -> 12

\* rules::build_adjacency_map, then adjacency_map.get(current)
outgoing(relations, current) ==
    Filter(relations, {r \in Range(relations) : r.from = current})

\* a visited set that never reports a node
never_visited(visited, next_node) == FALSE

\* visited.contains(next_node)
already_visited(visited, next_node) == next_node \in visited

\* a threshold test that lets every confidence pass
never_below(confidence, min_confidence) == FALSE

\* new_confidence < min_confidence
below_threshold(confidence, min_confidence) ==
    confidence.num * Twentieths < min_confidence * confidence.den

RECURSIVE infer_outgoing(_, _, _, _, _)
\* the loop `for relation in outgoing` for the queue entry cur; acc holds queue,
\* visited and inferred
infer_outgoing(acc, out, cur, target, min_confidence) ==
    IF out = <<>> THEN acc
    ELSE LET relation == Head(out)
             next_node == relation.to
             new_confidence ==
                [num |-> cur.confidence.num * get_decay_factor(relation.relationType),
                 den |-> cur.confidence.den * Twentieths]
             new_path == Append(cur.path, next_node)
             new_rel_types == Append(cur.rel_types, relation.relationType)
             found == [from |-> target, to |-> next_node,
                       relationType |-> <<"inferred", new_rel_types[1]>>,
                       confidence |-> new_confidence,
                       path |-> new_path, rel_types |-> new_rel_types]
         IN  IF already_visited(acc.visited, next_node)
             THEN infer_outgoing(acc, Tail(out), cur, target, min_confidence)
             ELSE IF below_threshold(new_confidence, min_confidence)
             THEN infer_outgoing(acc, Tail(out), cur, target, min_confidence)
             ELSE infer_outgoing(
                    [queue |-> Append(acc.queue,
                                      [node |-> next_node, path |-> new_path,
                                       rel_types |-> new_rel_types,
                                       confidence |-> new_confidence]),
                     visited |-> acc.visited \cup {next_node},
                     inferred |-> IF Len(new_path) >= 3
                                  THEN Append(acc.inferred, found)
                                  ELSE acc.inferred],
                    Tail(out), cur, target, min_confidence)

\* the graphs given to infer: all four entities, the target alone (every other
\* relation endpoint dangling) or a graph without the target
InferGraphs ==
    {[entities |-> es, relations |-> rs] :
        es \in {<<Entity("a", "t", <<>>), Entity("b", "t", <<>>),
                  Entity("c", "t", <<>>), Entity("d", "t", <<>>)>>,
                <<Entity("a", "t", <<>>)>>,
                <<Entity("b", "t", <<>>)>>},
        rs \in SeqsOf({Relation(f, t, rt) :
                            f \in InferNames, t \in InferNames, rt \in InferRelTypes},
                      0, MaxInferRelations)}

\* the locals of apply(graph, target, min_confidence) before its while loop;
\* step is stats.nodes_visited, dequeued the history of the entries taken
InferLocal(g, target, min_confidence, max_depth) ==
    [step |-> 0, entities |-> <<>>, during |-> {},
     target |-> target, min_confidence |-> min_confidence, max_depth |-> max_depth,
     queue |-> IF \E e \in Range(g.entities) : e.name = target
               THEN <<[node |-> target, path |-> <<target>>, rel_types |-> <<>>,
                       confidence |-> [num |-> 1, den |-> 1]]>>
               ELSE <<>>,
     visited |-> IF \E e \in Range(g.entities) : e.name = target
                 THEN {target} ELSE {},
     inferred |-> <<>>,
     dequeued |-> <<>>]

\* a call infer(g, "a", min_confidence) of an engine built with_max_depth(max_depth)
InferCall(g, min_confidence, max_depth) ==
    /\ graph = g
    /\ store = with_config(DefaultThreshold)
    /\ events_file = <<>>
    /\ archive = {}
    /\ latest = NoFile
    /\ previous = NoFile
    /\ temp = NoFile
    /\ graph_lock = NoLock
    /\ store_lock = NoThread
    /\ pc = [t \in Threads |-> IF t = InferThread THEN "infer" ELSE "idle"]
    /\ snap_id = [t \in Threads |-> 0]
    /\ local = [t \in Threads |->
                    IF t = InferThread
                    THEN InferLocal(g, "a", min_confidence, max_depth)
                    ELSE NoLocal]
    /\ written = <<>>
    /\ taken = <<>>
    /\ memory_file = <<>>
    /\ broadcaster = EventBroadcaster
    /\ app_state = AppState
    /\ lastCall = NoCall

InitInfer ==
    \E g \in InferGraphs, min_confidence \in InferThresholds,
       max_depth \in 1..DefaultMaxDepth :
        InferCall(g, min_confidence, max_depth)

\* one turn of `while let Some(..) = queue.pop_front()`
InferStep(t) ==
    /\ pc[t] = "infer"
    /\ local[t].queue # <<>>
    /\ LET l == local[t]
           cur == Head(l.queue)
           rest == [queue |-> Tail(l.queue), visited |-> l.visited,
                    inferred |-> l.inferred]
           acc == IF Len(cur.path) - 1 >= l.max_depth
                  THEN rest
                  ELSE infer_outgoing(rest, outgoing(graph.relations, cur.node), cur,
                                      l.target, l.min_confidence)
       IN  local' = [local EXCEPT ![t] =
                        [l EXCEPT !.step = @ + 1,
                                  !.dequeued = Append(@, cur.node),
                                  !.queue = acc.queue,
                                  !.visited = acc.visited,
                                  !.inferred = acc.inferred]]
    /\ lastCall' = NoCall
    /\ UNCHANGED <<graph, store, disk, locks, pc, snap_id, written, taken, memory_file, channels>>

\* the queue is empty: apply returns (inferred, stats)
InferReturn(t) ==
    /\ pc[t] = "infer"
    /\ local[t].queue = <<>>
    /\ pc' = [pc EXCEPT ![t] = "idle"]
    /\ lastCall' = [op |-> "infer", ok |-> TRUE, names |-> {}, relations |-> 0,
                    inferred |-> local[t].inferred,
                    nodes_visited |-> local[t].step]
    /\ UNCHANGED <<graph, store, disk, locks, local, snap_id, written, taken, memory_file, channels>>

NextInfer == InferStep(InferThread) \/ InferReturn(InferThread)

SpecInfer == InitInfer /\ [][NextInfer]_vars

(***************************************************************************)
(* SpecInferOrder: infer with the default depth limit on graphs of five    *)
(* entities and up to MaxOrderRelations relations, each leading from an    *)
(* entity to a later one of a, b, c, d, e: the graphs in which paths of    *)
(* two and of three hops from the target exist side by side.               *)
(***************************************************************************)
MaxOrderRelations == 4

OrderNames == <<"a", "b", "c", "d", "e">>

ForwardRelations ==
    {Relation(OrderNames[p[1]], OrderNames[p[2]], rt) :
        p \in {q \in (1..Len(OrderNames)) \X (1..Len(OrderNames)) : q[1] < q[2]},
        rt \in InferRelTypes}

OrderGraphs ==
    {[entities |-> [i \in 1..Len(OrderNames) |-> Entity(OrderNames[i], "t", <<>>)],
      relations |-> rs] : rs \in SeqsOf(ForwardRelations, 0, MaxOrderRelations)}

InitInferOrder ==
    \E g \in OrderGraphs, min_confidence \in InferThresholds :
        InferCall(g, min_confidence, DefaultMaxDepth)

SpecInferOrder == InitInferOrder /\ [][NextInfer]_vars

(***************************************************************************)
(* SpecStartup: a process starts on a data directory that an earlier       *)
(* process left behind and that was damaged while no process ran.  The     *)
(* earlier process ran with the default configuration, made up to          *)
(* MaxDirCalls mutation calls and took snapshots with                      *)
(* KnowledgeBase::create_snapshot, which does not rotate the log.  A       *)
(* snapshot file keeps its meta line (last_event_id); entities and         *)
(* relations are its entity lines and its relation lines.                  *)
(***************************************************************************)
MaxDirCalls == 2

\* a line, or the data of an event, that is not the JSON the reader expects
Unparsable == [text |-> "{"]

\* EventStore::load_events: the lines Event::from_json_line rejects are skipped
load_events(lines) == Filter(lines, Range(lines) \ {Unparsable})

\* replay_all / replay_after: `apply_event(..)?` returns the Err of
\* event.parse_data() at the first event whose data does not deserialize
replay_fails(evs) == \E i \in 1..Len(evs) : evs[i].data = Unparsable

\* EventStore::load_snapshot: None without a file, Err at the first line that
\* serde_json::from_str rejects, otherwise the lines sorted by their keys
load_snapshot(file) ==
    IF ~file.exists THEN [ok |-> TRUE, some |-> FALSE]
    ELSE LET lines == file.entities \o file.relations
             is_entity == {l \in Range(lines) : {"entityType", "name"} \subseteq DOMAIN l}
             is_relation == {l \in Range(lines) \ is_entity : "relationType" \in DOMAIN l}
         IN  IF Unparsable \in Range(lines) THEN [ok |-> FALSE, some |-> FALSE]
             ELSE [ok |-> TRUE, some |-> TRUE,
                   snapshot |-> [exists |-> TRUE,
                                 last_event_id |-> file.last_event_id,
                                 entities |-> Filter(lines, is_entity),
                                 relations |-> Filter(lines, is_relation)]]

\* SnapshotManager::recover_from_backup: the same reading, of previous.jsonl
recover_from_backup(file) == load_snapshot(file)

\* EventStore::initialize with its error returns: the `?` on load_snapshot, and
\* the `?` on replay_after, which comes after the two assignments to the store
try_initialize(st0, snapshot, lines) ==
    LET s == load_snapshot(snapshot)
        evs == load_events(lines)
    IN  IF ~s.ok THEN [ok |-> FALSE, store |-> st0]
        ELSE IF s.some /\ replay_fails(load_events_after(evs, s.snapshot.last_event_id))
        THEN [ok |-> FALSE,
              store |-> [st0 EXCEPT
                            !.last_snapshot_event_id = s.snapshot.last_event_id,
                            !.next_event_id = s.snapshot.last_event_id + 1]]
        ELSE IF ~s.some /\ replay_fails(evs) THEN [ok |-> FALSE, store |-> st0]
        ELSE LET r == initialize(st0, IF s.some THEN s.snapshot ELSE NoFile, evs)
             IN  [ok |-> TRUE, graph |-> r.graph, store |-> r.store]

\* the calls of the earlier process
DirCalls ==
    [op : {"create_entities"}, arg : EntityInputs(Names)]
        \cup [op : {"create_relations"}, arg : RelationInputs(Names)]

RECURSIVE AfterCalls(_)
\* the graph of the earlier process and the lines it wrote, after its calls
AfterCalls(calls) ==
    IF calls = <<>> THEN [graph |-> EmptyGraph, lines |-> <<>>]
    ELSE LET before == AfterCalls(SubSeq(calls, 1, Len(calls) - 1))
             c == calls[Len(calls)]
             res == IF c.op = "create_entities"
                    THEN create_entities(before.graph, <<c.arg>>, NoFault)
                    ELSE create_relations(before.graph, <<c.arg>>, NoFault)
         IN  [graph |-> res.graph,
              lines |-> before.lines \o Lines(res.emitted, Len(before.lines) + 1)]

\* KnowledgeBase::create_snapshot after the first k calls (it takes no snapshot
\* while last_event_id is 0)
SnapshotAfter(calls, k) ==
    LET d == AfterCalls(SubSeq(calls, 1, k))
    IN  IF k = 0 \/ d.lines = <<>> THEN NoFile
        ELSE SnapshotFile(Len(d.lines), d.graph)

InitStartup ==
    \E calls \in SeqsOf(DirCalls, 0, MaxDirCalls) :
        \E k2 \in 0..Len(calls) :
            \E k1 \in 0..k2 :
                /\ SnapshotAfter(calls, k1).exists => SnapshotAfter(calls, k2).exists
                /\ events_file = AfterCalls(calls).lines
                /\ written = AfterCalls(calls).lines
                /\ latest = SnapshotAfter(calls, k2)
                /\ previous = SnapshotAfter(calls, k1)
                /\ taken = Filter(<<SnapshotAfter(calls, k1), SnapshotAfter(calls, k2)>>,
                                  {SnapshotAfter(calls, k1), SnapshotAfter(calls, k2)}
                                      \ {NoFile})
                /\ memory_file = <<>>
                /\ broadcaster = EventBroadcaster
                /\ app_state = AppState
                /\ archive = {}
                /\ temp = NoFile
                /\ graph = EmptyGraph
                /\ store = with_config(DefaultThreshold)
                /\ graph_lock = NoLock
                /\ store_lock = NoThread
                /\ pc = [t \in Threads |-> "stopped"]
                /\ snap_id = [t \in Threads |-> 0]
                /\ local = [t \in Threads |-> NoLocal]
                /\ lastCall = NoCall

\* the files a snapshot file can become when one of its lines is overwritten
Damaged(file) ==
    IF ~file.exists THEN {}
    ELSE {[file EXCEPT !.entities[i] = Unparsable] :
                i \in {j \in 1..Len(file.entities) : file.entities[j] # Unparsable}}
         \cup {[file EXCEPT !.relations[i] = Unparsable] :
                i \in {j \in 1..Len(file.relations) : file.relations[j] # Unparsable}}

\* a line of events.jsonl is overwritten with text that is not JSON
DamageEventLine ==
    /\ \A t \in Threads : pc[t] = "stopped"
    /\ \E i \in 1..Len(events_file) :
        /\ events_file[i] # Unparsable
        /\ events_file' = [events_file EXCEPT ![i] = Unparsable]
    /\ lastCall' = NoCall
    /\ UNCHANGED <<graph, store, archive, latest, previous, temp, locks, pc,
                   snap_id, local, written, taken, memory_file, channels>>

\* the "data" of an event line is overwritten: the line is still an Event
DamageEventData ==
    /\ \A t \in Threads : pc[t] = "stopped"
    /\ \E i \in 1..Len(events_file) :
        /\ events_file[i] # Unparsable
        /\ events_file[i].data # Unparsable
        /\ events_file' = [events_file EXCEPT ![i].data = Unparsable]
    /\ lastCall' = NoCall
    /\ UNCHANGED <<graph, store, archive, latest, previous, temp, locks, pc,
                   snap_id, local, written, taken, memory_file, channels>>

\* an entity or relation line of latest.jsonl is overwritten
DamageLatest ==
    /\ \A t \in Threads : pc[t] = "stopped"
    /\ latest' \in Damaged(latest)
    /\ lastCall' = NoCall
    /\ UNCHANGED <<graph, store, events_file, archive, previous, temp, locks, pc,
                   snap_id, local, written, taken, memory_file, channels>>

\* an entity or relation line of previous.jsonl is overwritten
DamagePrevious ==
    /\ \A t \in Threads : pc[t] = "stopped"
    /\ previous' \in Damaged(previous)
    /\ lastCall' = NoCall
    /\ UNCHANGED <<graph, store, events_file, archive, latest, temp, locks, pc,
                   snap_id, local, written, taken, memory_file, channels>>

\* KnowledgeBase::new_with_event_sourcing: the graph of initialize, or the empty
\* graph when initialize returns Err (lastCall.ok tells which)
Startup ==
    /\ \A t \in Threads : pc[t] = "stopped"
    /\ LET r == try_initialize(with_config(store.snapshot_threshold), latest,
                               events_file)
       IN  /\ graph' = IF r.ok THEN r.graph ELSE EmptyGraph
           /\ store' = r.store
           /\ lastCall' = [NoCall EXCEPT !.op = "new_with_event_sourcing",
                                         !.ok = r.ok]
    /\ pc' = [t \in Threads |-> "idle"]
    /\ UNCHANGED <<disk, locks, snap_id, local, written, taken, memory_file, channels>>

NextStartup ==
    \/ DamageEventLine
    \/ DamageEventData
    \/ DamageLatest
    \/ DamagePrevious
    \/ Startup

SpecStartup == InitStartup /\ [][NextStartup]_vars

(***************************************************************************)
(* SpecClock: the timestamps of the entities.  In this specification the   *)
(* entities carry created_at and updated_at and the event lines carry      *)
(* timestamp.  utils::current_timestamp reads SystemTime::now, the wall    *)
(* clock, which the system may set back between two readings: every        *)
(* reading is a value of Clock.  One thread creates entities, adds         *)
(* observations, and the process restarts and replays events.jsonl.        *)
(***************************************************************************)
MaxClock == 2
Clock == 1..MaxClock
ClockThread == "t1"

\* an entity with its timestamps
Stamped(e, created, updated) ==
    [name |-> e.name, entityType |-> e.entityType, observations |-> e.observations,
     created_at |-> created, updated_at |-> updated]

\* Event::new: the lines of one call, each with the timestamp read for it
Timed(lines, ts) ==
    [i \in 1..Len(lines) |->
        [eventId |-> lines[i].eventId, eventType |-> lines[i].eventType,
         data |-> lines[i].data, timestamp |-> ts]]

\* add_observations: `entity.updated_at = now` for the entities that got new
\* contents, which are the ones an observation_added event was emitted for
touch_updated(res, now) ==
    LET touched == {FindEntity(res.graph.entities, ev.data.entity) :
                        ev \in {x \in Range(res.emitted) :
                                    x.eventType = "observation_added"}}
    IN  [res EXCEPT !.graph.entities =
            [i \in 1..Len(@) |->
                IF i \in touched THEN [@[i] EXCEPT !.updated_at = now] ELSE @[i]]]

\* EventStore::apply_event with the timestamps it writes
apply_event_at(g, e) ==
    CASE e.eventType = "entity_created" ->
            IF \E i \in 1..Len(g.entities) : g.entities[i].name = e.data.name
            THEN g
            ELSE [g EXCEPT !.entities =
                    Append(@, Stamped(e.data, e.timestamp, e.timestamp))]
      [] e.eventType = "observation_added" ->
            LET i == FindEntity(g.entities, e.data.entity)
            IN  IF i = 0 THEN g
                ELSE [apply_observation_added(g, e.data)
                        EXCEPT !.entities[i].updated_at = e.timestamp]

RECURSIVE replay_all(_, _)
\* EventStore::replay_all
replay_all(g, evs) ==
    IF evs = <<>> THEN g ELSE replay_all(apply_event_at(g, Head(evs)), Tail(evs))

\* the return of a mutation call that read `now` at its start and whose events
\* were created at ts
ClockReturn(t, op, res, ts) ==
    LET n == Len(res.emitted)
        lines == Timed(Lines(res.emitted, store.next_event_id), ts)
    IN  /\ pc[t] = "locked"
        /\ store_lock = NoThread
        /\ store.next_event_id + n - 1 <= MaxEventId(store)
        /\ graph' = res.graph
        /\ events_file' = events_file \o lines
        /\ written' = written \o lines
        /\ store' = [store EXCEPT !.next_event_id = @ + n,
                                  !.events_since_snapshot = @ + n]
        /\ graph_lock' = NoLock
        /\ pc' = [pc EXCEPT ![t] = "post"]
        /\ lastCall' = [NoCall EXCEPT !.op = op]
        /\ UNCHANGED <<archive, latest, previous, temp, store_lock, snap_id, local,
                       taken, memory_file, channels>>

\* create_entities: created_at = updated_at = now
CreateEntitiesAt(t) ==
    \E e \in EntityInputs(Names) :
        \E now \in Clock :
            \E ts \in Clock :
                ClockReturn(t, "create_entities",
                            create_entities(graph, <<Stamped(e, now, now)>>, NoFault),
                            ts)

\* add_observations
AddObservationsAt(t) ==
    \E obs \in ObservationInputs(Names) :
        \E now \in Clock :
            \E ts \in Clock :
                ClockReturn(t, "add_observations",
                            touch_updated(add_observations(graph, <<obs>>, NoFault),
                                          now),
                            ts)

\* the process stops and a new one replays events.jsonl
ClockRestart ==
    /\ graph' = replay_all(EmptyGraph, events_file)
    /\ store' = initialize(with_config(store.snapshot_threshold), NoFile,
                           events_file).store
    /\ graph_lock' = NoLock
    /\ store_lock' = NoThread
    /\ pc' = [t \in Threads |-> "idle"]
    /\ lastCall' = [NoCall EXCEPT !.op = "initialize"]
    /\ UNCHANGED <<disk, snap_id, local, written, taken, memory_file, channels>>

NextClock ==
    \/ LockGraph(ClockThread)
    \/ CreateEntitiesAt(ClockThread)
    \/ AddObservationsAt(ClockThread)
    \/ SnapLockStore(ClockThread)
    \/ SnapSkip(ClockThread)
    \/ ClockRestart

SpecClock == Init /\ [][NextClock]_vars

(***************************************************************************)
(* SpecLegacy: a Knowledge Base in Legacy mode (event_sourcing_enabled is  *)
(* false): a mutation changes the graph and, still holding the write lock, *)
(* rewrites memory.jsonl with persist_to_file.  std::fs::write creates or  *)
(* truncates the file and then writes the content; the writing is one step *)
(* per line.  local[t].during holds the graph from before the mutation     *)
(* while thread t is rewriting the file.                                   *)
(***************************************************************************)
\* the content persist_to_file builds: the entity lines, then the relation lines
FileContent(g) == g.entities \o g.relations

\* the body of a mutation in Legacy mode, up to the call of persist_to_file
LegacyMutation(t, res) ==
    /\ pc[t] = "locked"
    /\ graph' = res.graph
    /\ local' = [local EXCEPT ![t].during = {graph}]
    /\ pc' = [pc EXCEPT ![t] = "persist_create"]
    /\ lastCall' = NoCall
    /\ UNCHANGED <<store, disk, locks, snap_id, written, taken, memory_file, channels>>

LegacyCreateEntities(t) ==
    \E entities \in SeqsOf(EntityInputs(Names), 1, MaxBatch) :
        LegacyMutation(t, create_entities(graph, entities, NoFault))

LegacyDeleteEntities(t) ==
    \E entity_names \in SeqsOf(Names, 1, MaxBatch) :
        LegacyMutation(t, delete_entities(graph, entity_names, NoFault))

\* fs::write: File::create opens memory.jsonl and truncates it
PersistCreate(t) ==
    /\ pc[t] = "persist_create"
    /\ memory_file' = <<>>
    /\ pc' = [pc EXCEPT ![t] = "persist_write"]
    /\ lastCall' = NoCall
    /\ UNCHANGED <<graph, store, disk, locks, snap_id, local, written, taken, channels>>

\* fs::write: write_all, the next line of the content
PersistWrite(t) ==
    /\ pc[t] = "persist_write"
    /\ Len(memory_file) < Len(FileContent(graph))
    /\ memory_file' = Append(memory_file, FileContent(graph)[Len(memory_file) + 1])
    /\ lastCall' = NoCall
    /\ UNCHANGED <<graph, store, disk, locks, pc, snap_id, local, written, taken, channels>>

\* persist_to_file returns Ok, drop(graph), and the call returns
PersistDone(t) ==
    /\ pc[t] = "persist_write"
    /\ Len(memory_file) = Len(FileContent(graph))
    /\ graph_lock' = NoLock
    /\ local' = [local EXCEPT ![t] = NoLocal]
    /\ pc' = [pc EXCEPT ![t] = "idle"]
    /\ lastCall' = [NoCall EXCEPT !.op = "persist_to_file"]
    /\ UNCHANGED <<graph, store, disk, store_lock, snap_id, written, taken,
                   memory_file, channels>>

NextLegacy ==
    \E t \in Threads :
        \/ LockGraph(t)
        \/ LegacyCreateEntities(t)
        \/ LegacyDeleteEntities(t)
        \/ PersistCreate(t)
        \/ PersistWrite(t)
        \/ PersistDone(t)

SpecLegacy == Init /\ [][NextLegacy]_vars

(***************************************************************************)
(* SpecLegacyFail: Legacy mode with a file system that can fail.  fs::write *)
(* returns an error from File::create, the file left as it was, or from    *)
(* write_all, the file left truncated with the lines written so far.       *)
(***************************************************************************)
\* `kb.persist_to_file(&graph)?` returns the error of fs::write from the
\* mutation call, dropping the graph write guard
PersistFail(t) ==
    /\ pc[t] \in {"persist_create", "persist_write"}
    /\ pc[t] = "persist_write" => Len(memory_file) < Len(FileContent(graph))
    /\ graph_lock' = NoLock
    /\ local' = [local EXCEPT ![t] = NoLocal]
    /\ pc' = [pc EXCEPT ![t] = "idle"]
    /\ lastCall' = [NoCall EXCEPT !.op = "persist_to_file", !.ok = FALSE]
    /\ UNCHANGED <<graph, store, disk, store_lock, snap_id, written, taken,
                   memory_file, channels>>

NextLegacyFail == NextLegacy \/ \E t \in Threads : PersistFail(t)

SpecLegacyFail == Init /\ [][NextLegacyFail]_vars

(***************************************************************************)
(* SpecMigrate: MigrationTool::migrate_from_legacy on a legacy memory.jsonl *)
(* of up to MaxLegacyLines lines: entity lines, relation lines and lines   *)
(* that are neither, in any order, into an empty data directory.           *)
(***************************************************************************)
MaxLegacyLines == 3

\* MigrationTool::read_legacy_file: a line is tried as an Entity (it needs name
\* and entityType), then as a Relation (from, to and relationType), else skipped
read_legacy_file(lines) ==
    LET as_entity == {l \in Range(lines) : {"name", "entityType"} \subseteq DOMAIN l}
        as_relation == {l \in Range(lines) \ as_entity :
                            {"from", "to", "relationType"} \subseteq DOMAIN l}
    IN  [entities |-> Filter(lines, as_entity),
         relations |-> Filter(lines, as_relation)]

\* create_migration_events whose relation loop starts again at event id 1
create_migration_events_renumbering(entities, relations) ==
    [i \in 1..Len(entities) |->
        Event(i, "entity_created",
              [name |-> entities[i].name, entityType |-> entities[i].entityType,
               observations |-> entities[i].observations])]
    \o [j \in 1..Len(relations) |->
        Event(j, "relation_created",
              [from |-> relations[j].from, to |-> relations[j].to,
               relationType |-> relations[j].relationType])]

\* MigrationTool::create_migration_events: event_id counts on from 1 through the
\* entity loop and then the relation loop
create_migration_events(entities, relations) ==
    [i \in 1..Len(entities) |->
        Event(i, "entity_created",
              [name |-> entities[i].name, entityType |-> entities[i].entityType,
               observations |-> entities[i].observations])]
    \o [j \in 1..Len(relations) |->
        Event(Len(entities) + j, "relation_created",
              [from |-> relations[j].from, to |-> relations[j].to,
               relationType |-> relations[j].relationType])]

LegacyLines ==
    EntityInputs(Names) \cup RelationInputs(Names) \cup {Unparsable}

InitMigrate ==
    /\ graph = EmptyGraph
    /\ store = with_config(DefaultThreshold)
    /\ events_file = <<>>
    /\ archive = {}
    /\ latest = NoFile
    /\ previous = NoFile
    /\ temp = NoFile
    /\ graph_lock = NoLock
    /\ store_lock = NoThread
    /\ pc = [t \in Threads |-> "stopped"]
    /\ snap_id = [t \in Threads |-> 0]
    /\ local = [t \in Threads |-> NoLocal]
    /\ written = <<>>
    /\ taken = <<>>
    /\ memory_file \in SeqsOf(LegacyLines, 0, MaxLegacyLines)
    /\ broadcaster = EventBroadcaster
    /\ app_state = AppState
    /\ lastCall = NoCall

\* migrate_from_legacy: read the legacy file, write_events (events.tmp renamed to
\* events.jsonl), create_snapshot_with_backup of the entities and relations read
MigrateFromLegacy ==
    /\ lastCall.op # "migrate_from_legacy"
    /\ LET legacy == read_legacy_file(memory_file)
           events == create_migration_events(legacy.entities, legacy.relations)
           last_event_id == IF events = <<>> THEN 0 ELSE events[Len(events)].eventId
           snapshot == SnapshotFile(last_event_id, legacy)
       IN  /\ events_file' = events
           /\ written' = written \o events
           /\ previous' = IF latest.exists THEN latest ELSE previous
           /\ latest' = snapshot
           /\ taken' = Append(taken, snapshot)
    /\ lastCall' = [NoCall EXCEPT !.op = "migrate_from_legacy"]
    /\ UNCHANGED <<graph, store, archive, temp, locks, pc, snap_id, local,
                   memory_file, channels>>

\* KnowledgeBase::new_with_event_sourcing on the migrated data directory
MigratedStartup ==
    /\ lastCall.op = "migrate_from_legacy"
    /\ Startup

NextMigrate == MigrateFromLegacy \/ MigratedStartup

SpecMigrate == InitMigrate /\ [][NextMigrate]_vars

(***************************************************************************)
(* SpecCleanup: LogRotation::cleanup_old_archives on the archive directory *)
(* that successive rotations fill.  File names are compared as Rust        *)
(* compares OsStr values: byte by byte.                                    *)
(***************************************************************************)
MaxRotations == 10
MaxKeep == 2

RECURSIVE Decimal(_)
\* the bytes of format!("{}", n) for an unsigned n
Decimal(n) ==
    IF n < 10 THEN <<48 + n>> ELSE Decimal(n \div 10) \o <<48 + (n % 10)>>

\* the bytes of format!("events_{}_to_{}.jsonl", lo, hi)
archive_filename(lo, hi) ==
    <<101, 118, 101, 110, 116, 115, 95>> \o Decimal(lo) \o <<95, 116, 111, 95>>
    \o Decimal(hi) \o <<46, 106, 115, 111, 110, 108>>

RECURSIVE Less(_, _)
\* Ord::cmp of two byte strings gives Ordering::Less
Less(a, b) ==
    IF a = <<>> THEN b # <<>>
    ELSE IF b = <<>> THEN FALSE
    ELSE IF Head(a) # Head(b) THEN Head(a) < Head(b)
    ELSE Less(Tail(a), Tail(b))

\* cleanup_old_archives: the files left in the directory; sorted by file name
\* descending, the first keep_count are kept
cleanup_old_archives(arch, keep_count) ==
    IF Cardinality(arch) <= keep_count THEN arch
    ELSE {f \in arch :
            Cardinality({g \in arch : Less(archive_filename(f.lo, f.hi),
                                           archive_filename(g.lo, g.hi))})
                < keep_count}

InitCleanup ==
    \E threshold \in 1..SmallThreshold : InitWith(threshold)

\* snapshot_threshold events are appended and the snapshot taken then rotates
\* them into the next archive file
RotateNext ==
    /\ Cardinality(archive) < MaxRotations
    /\ store.last_snapshot_event_id < MaxRotations * store.snapshot_threshold
    /\ LET lo == store.last_snapshot_event_id + 1
           hi == store.last_snapshot_event_id + store.snapshot_threshold
           evs == [i \in 1..store.snapshot_threshold |->
                      Event(lo + i - 1, "entity_created", Entity("a", "t", <<>>))]
       IN  /\ archive' = rotate_after_snapshot(evs, archive, hi).archive
           /\ store' = [store EXCEPT !.next_event_id = hi + 1,
                                     !.last_snapshot_event_id = hi]
    /\ lastCall' = [NoCall EXCEPT !.op = "rotate_after_snapshot"]
    /\ UNCHANGED <<graph, events_file, latest, previous, temp, locks, pc, snap_id,
                   local, written, taken, memory_file, channels>>

CleanupOldArchives ==
    \E keep_count \in 0..MaxKeep :
        /\ archive' = cleanup_old_archives(archive, keep_count)
        /\ lastCall' = [NoCall EXCEPT !.op = "cleanup_old_archives",
                                      !.relations = keep_count]
        /\ UNCHANGED <<graph, store, events_file, latest, previous, temp, locks, pc,
                       snap_id, local, written, taken, memory_file, channels>>

NextCleanup == RotateNext \/ CleanupOldArchives

SpecCleanup == InitCleanup /\ [][NextCleanup]_vars

(***************************************************************************)
(* SpecBroadcast: threads call EventBroadcaster::broadcast and             *)
(* AppState::broadcast at once, each atomic operation a step; a subscriber  *)
(* of the AppState channel takes the messages with rx.recv(), which returns *)
(* them in the order of the sends; get_events_since reads the history.      *)
(* The history keeps EventHistorySize messages.                            *)
(***************************************************************************)
MaxBroadcasts == 3
\* EVENT_HISTORY_SIZE, scaled down
EventHistorySize == 2

WsMessage(event, seq) == [event |-> event, sequence_id |-> seq]

GraphEvents == {[type |-> "entity_deleted", name |-> n] : n \in Names}

\* EventBroadcaster::get_events_since on the history h
get_events_since(h, since_sequence_id) ==
    IF h = <<>> THEN [some |-> TRUE, events |-> <<>>]
    ELSE IF since_sequence_id < h[1].sequence_id THEN [some |-> FALSE]
    ELSE [some |-> TRUE,
          events |-> Filter(h, {m \in Range(h) : m.sequence_id > since_sequence_id})]

\* a thread working on msg
Holding(msg) == [step |-> 0, entities |-> <<>>, during |-> {}, msg |-> msg]

\* EventBroadcaster::broadcast: sequence_counter.fetch_add(1, SeqCst) and msg
BroadcastFetchAdd(t) ==
    /\ pc[t] = "idle"
    /\ broadcaster.sequence_counter < MaxBroadcasts
    /\ \E event \in GraphEvents :
        local' = [local EXCEPT ![t] =
                    Holding(WsMessage(event, broadcaster.sequence_counter))]
    /\ broadcaster' = [broadcaster EXCEPT !.sequence_counter = @ + 1]
    /\ pc' = [pc EXCEPT ![t] = "broadcast_history"]
    /\ lastCall' = NoCall
    /\ UNCHANGED <<graph, store, disk, locks, snap_id, written, taken, memory_file,
                   app_state>>

\* EventBroadcaster::broadcast: under event_history.write(), pop_front when the
\* history is full, push_back(msg.clone())
BroadcastHistory(t) ==
    /\ pc[t] = "broadcast_history"
    /\ broadcaster' =
        [broadcaster EXCEPT !.event_history =
            Append(IF Len(@) >= EventHistorySize THEN Tail(@) ELSE @, local[t].msg)]
    /\ pc' = [pc EXCEPT ![t] = "broadcast_send"]
    /\ lastCall' = NoCall
    /\ UNCHANGED <<graph, store, disk, locks, snap_id, local, written, taken,
                   memory_file, app_state>>

\* EventBroadcaster::broadcast: tx.send(msg), and the call returns
BroadcastSend(t) ==
    /\ pc[t] = "broadcast_send"
    /\ broadcaster' = [broadcaster EXCEPT !.tx = Append(@, local[t].msg)]
    /\ local' = [local EXCEPT ![t] = NoLocal]
    /\ pc' = [pc EXCEPT ![t] = "idle"]
    /\ lastCall' = [NoCall EXCEPT !.op = "broadcast"]
    /\ UNCHANGED <<graph, store, disk, locks, snap_id, written, taken, memory_file,
                   app_state>>

\* AppState::broadcast: sequence_counter.fetch_add(1, SeqCst) and msg
AppStateFetchAdd(t) ==
    /\ pc[t] = "idle"
    /\ app_state.sequence_counter < MaxBroadcasts
    /\ \E event \in GraphEvents :
        local' = [local EXCEPT ![t] =
                    Holding(WsMessage(event, app_state.sequence_counter))]
    /\ app_state' = [app_state EXCEPT !.sequence_counter = @ + 1]
    /\ pc' = [pc EXCEPT ![t] = "app_state_send"]
    /\ lastCall' = NoCall
    /\ UNCHANGED <<graph, store, disk, locks, snap_id, written, taken, memory_file,
                   broadcaster>>

\* AppState::broadcast: event_tx.send(msg), and the call returns
AppStateSend(t) ==
    /\ pc[t] = "app_state_send"
    /\ app_state' = [app_state EXCEPT !.event_tx = Append(@, local[t].msg)]
    /\ local' = [local EXCEPT ![t] = NoLocal]
    /\ pc' = [pc EXCEPT ![t] = "idle"]
    /\ lastCall' = [NoCall EXCEPT !.op = "broadcast"]
    /\ UNCHANGED <<graph, store, disk, locks, snap_id, written, taken, memory_file,
                   broadcaster>>

\* handle_socket: rx.recv() returns the next message of the channel
Recv ==
    /\ Len(app_state.received) < Len(app_state.event_tx)
    /\ app_state' = [app_state EXCEPT !.received =
                        Append(@, app_state.event_tx[Len(@) + 1])]
    /\ lastCall' = NoCall
    /\ UNCHANGED <<graph, store, disk, locks, pc, snap_id, local, written, taken,
                   memory_file, broadcaster>>

\* get_events_replay: b.get_events_since(params.since)
GetEventsSince(t) ==
    /\ pc[t] = "idle"
    /\ \E since \in 0..MaxBroadcasts :
        lastCall' = [op |-> "get_events_since", ok |-> TRUE, names |-> {},
                     relations |-> 0, since |-> since,
                     result |-> get_events_since(broadcaster.event_history, since)]
    /\ UNCHANGED <<graph, store, disk, locks, pc, snap_id, local, written, taken,
                   memory_file, channels>>

NextBroadcast ==
    \/ \E t \in Threads :
        \/ BroadcastFetchAdd(t)
        \/ BroadcastHistory(t)
        \/ BroadcastSend(t)
        \/ AppStateFetchAdd(t)
        \/ AppStateSend(t)
        \/ GetEventsSince(t)
    \/ Recv

SpecBroadcast == Init /\ [][NextBroadcast]_vars

(***************************************************************************)
(* SpecOpen: one thread makes mutation calls and open_nodes calls, one     *)
(* after another, in a process started on an empty data directory with the *)
(* default configuration.  open_nodes takes the entities from              *)
(* kb.search_index and the relations from load_graph().                    *)
(***************************************************************************)
\* the sequences that list every element of S once: the orders in which
\* iterating a HashSet can give its elements
Orderings(S) == {s \in SeqsOf(S, Cardinality(S), Cardinality(S)) : Range(s) = S}

\* SearchIndex::get_entities, the possible results
get_entities(index, names) ==
    Orderings({index.entity_map[n] : n \in names \cap DOMAIN index.entity_map})

\* open_nodes: kb.search_index.read() and index.get_entities(&name_set)
OpenNodesIndex(t) ==
    /\ pc[t] = "idle"
    /\ pc' = [pc EXCEPT ![t] = "open_index"]
    /\ \E names \in SUBSET Names : \E entities \in get_entities(search_index, names) :
        local' = [local EXCEPT ![t] =
                    [step |-> local[t].step, entities |-> entities,
                     during |-> {graph}, names |-> names]]
    /\ lastCall' = NoCall
    /\ UNCHANGED <<graph, store, disk, locks, snap_id, written, taken, memory_file,
                   channels>>

\* open_nodes: let graph = kb.load_graph()?, the relation filter and the return
OpenNodesReturn(t) ==
    /\ pc[t] = "open_index"
    /\ graph_lock.writer = NoThread
    /\ pc' = [pc EXCEPT ![t] = "idle"]
    /\ local' = [local EXCEPT ![t] = NoLocal]
    /\ lastCall' = [op |-> "open_nodes", ok |-> TRUE, names |-> local[t].names,
                    entities |-> local[t].entities,
                    relations |-> open_nodes_relations(graph, local[t].entities),
                    during |-> local[t].during]
    /\ UNCHANGED <<graph, store, disk, locks, snap_id, written, taken, memory_file,
                   channels>>

NextOpen ==
    \E t \in StoreThreads :
        \/ LockGraph(t)
        \/ CreateEntitiesOver(t, Names)
        \/ CreateRelationsOver(t, Names)
        \/ AddObservationsOver(t, Names)
        \/ DeleteEntitiesOver(t, Names)
        \/ SnapLockStore(t)
        \/ SnapSkip(t)
        \/ OpenNodesIndex(t)
        \/ OpenNodesReturn(t)

SpecOpen == Init /\ [][NextOpen]_vars

(***************************************************************************)
(* SpecSuccess: mutation calls of one thread in which no append fails, so  *)
(* that every call returns Ok, with the default configuration or with a    *)
(* small snapshot threshold, and the snapshots and rotations that fall due.*)
(***************************************************************************)
\* a mutation call, of any input over StoreNames, whose emit_event calls all
\* return Ok
SuccessfulCall(t) ==
    \/ \E entities \in SeqsOf(EntityInputs(StoreNames), 1, MaxBatch) :
        Return(t, "create_entities", create_entities(graph, entities, NoFault), {})
    \/ \E relations \in SeqsOf(RelationInputs(StoreNames), 1, MaxBatch) :
        Return(t, "create_relations", create_relations(graph, relations, NoFault), {})
    \/ \E observations \in SeqsOf(ObservationInputs(StoreNames), 1, MaxBatch) :
        Return(t, "add_observations",
               add_observations(graph, observations, NoFault), {})
    \/ \E entity_names \in SeqsOf(StoreNames, 1, MaxBatch) :
        Return(t, "delete_entities",
               delete_entities(graph, entity_names, NoFault), Range(entity_names))
    \/ \E deletions \in SeqsOf(DeletionInputs(StoreNames), 1, MaxBatch) :
        Return(t, "delete_observations",
               delete_observations(graph, deletions, NoFault), {})
    \/ \E relations \in SeqsOf(RelationInputs(StoreNames), 1, MaxBatch) :
        Return(t, "delete_relations", delete_relations(graph, relations, NoFault), {})

NextSuccess ==
    \E t \in StoreThreads :
        \/ LockGraph(t)
        \/ SuccessfulCall(t)
        \/ SnapLockStore(t)
        \/ SnapSkip(t)
        \/ SnapBegin(t)
        \/ SnapWriteTemp(t)
        \/ SnapCheckLatest(t)
        \/ SnapRemovePrevious(t)
        \/ SnapMoveLatest(t)
        \/ SnapInstall(t)
        \/ SnapRotate(t)

InitSuccess ==
    \E threshold \in {DefaultThreshold, SmallThreshold} : InitWith(threshold)

SpecSuccess == InitSuccess /\ [][NextSuccess]_vars

(***************************************************************************)
(* SpecRotate: KnowledgeBase::rotate_event_log called by one thread while  *)
(* another makes mutation calls that succeed and takes the snapshots that  *)
(* fall due.  rotate_event_log takes and drops the store lock, reads the   *)
(* meta line of latest.jsonl and runs LogRotation::rotate_after_snapshot   *)
(* holding no lock, one file system call per step: the lines it read from  *)
(* events.jsonl are in local[t].lines until it returns.                    *)
(***************************************************************************)
RotateThreads == {"t2"}

\* let _store = event_store.lock().unwrap(); drop(_store)
RotateEventLog(t) ==
    /\ pc[t] = "idle"
    /\ store_lock = NoThread
    /\ pc' = [pc EXCEPT ![t] = "rot_meta"]
    /\ lastCall' = NoCall
    /\ UNCHANGED <<graph, store, disk, locks, snap_id, local, written, taken,
                   memory_file, channels>>

\* snapshot_manager.load_meta(): Ok(None) without latest.jsonl, and then
\* rotate_event_log returns Ok(None)
RotateLoadMeta(t) ==
    /\ pc[t] = "rot_meta"
    /\ IF latest.exists
       THEN /\ snap_id' = [snap_id EXCEPT ![t] = latest.last_event_id]
            /\ pc' = [pc EXCEPT ![t] = "rot_read"]
            /\ lastCall' = NoCall
       ELSE /\ pc' = [pc EXCEPT ![t] = "idle"]
            /\ lastCall' = [NoCall EXCEPT !.op = "rotate_event_log"]
            /\ UNCHANGED snap_id
    /\ UNCHANGED <<graph, store, disk, locks, local, written, taken, memory_file, channels>>

\* File::open(&events_path) and the loop over reader.lines(); with no line to
\* archive rotate_after_snapshot returns Ok(None)
RotateRead(t) ==
    /\ pc[t] = "rot_read"
    /\ IF \E e \in Range(events_file) : e.eventId <= snap_id[t]
       THEN /\ local' = [local EXCEPT ![t] =
                            [step |-> 0, entities |-> <<>>, during |-> {},
                             lines |-> events_file]]
            /\ pc' = [pc EXCEPT ![t] = "rot_archive"]
            /\ lastCall' = NoCall
       ELSE /\ pc' = [pc EXCEPT ![t] = "idle"]
            /\ lastCall' = [NoCall EXCEPT !.op = "rotate_event_log"]
            /\ UNCHANGED local
    /\ UNCHANGED <<graph, store, disk, locks, snap_id, written, taken, memory_file, channels>>

\* File::create(&archive_path), the archive lines, sync_all
RotateWriteArchive(t) ==
    /\ pc[t] = "rot_archive"
    /\ archive' = rotate_after_snapshot(local[t].lines, archive, snap_id[t]).archive
    /\ pc' = [pc EXCEPT ![t] = "rot_rename"]
    /\ lastCall' = NoCall
    /\ UNCHANGED <<graph, store, events_file, latest, previous, temp, locks, snap_id,
                   local, written, taken, memory_file, channels>>

\* the keep lines written to events.tmp and fs::rename(&temp_path, &events_path)
RotateRename(t) ==
    /\ pc[t] = "rot_rename"
    /\ events_file' = rotate_after_snapshot(local[t].lines, archive, snap_id[t]).events_file
    /\ local' = [local EXCEPT ![t] = NoLocal]
    /\ pc' = [pc EXCEPT ![t] = "idle"]
    /\ lastCall' = [NoCall EXCEPT !.op = "rotate_event_log"]
    /\ UNCHANGED <<graph, store, archive, latest, previous, temp, locks, snap_id,
                   written, taken, memory_file, channels>>

NextRotate ==
    \/ \E t \in StoreThreads :
        \/ LockGraph(t)
        \/ SuccessfulCall(t)
        \/ SnapLockStore(t)
        \/ SnapSkip(t)
        \/ SnapBegin(t)
        \/ SnapWriteTemp(t)
        \/ SnapCheckLatest(t)
        \/ SnapRemovePrevious(t)
        \/ SnapMoveLatest(t)
        \/ SnapInstall(t)
        \/ SnapRotate(t)
    \/ \E t \in RotateThreads :
        \/ RotateEventLog(t)
        \/ RotateLoadMeta(t)
        \/ RotateRead(t)
        \/ RotateWriteArchive(t)
        \/ RotateRename(t)

SpecRotate == InitStore /\ [][NextRotate]_vars

(***************************************************************************)
(* SpecSearch: search_nodes, and SearchIndex::remove_entity and            *)
(* update_entity, on a process started with a graph of up to               *)
(* MaxSearchEntities entities, loaded from memory.jsonl, whose names, types *)
(* and observations are texts.  The index is the one built from that graph *)
(* at startup.                                                             *)
(***************************************************************************)
MaxSearchEntities == 2

\* "pg", "dbs"
SearchNames == {<<"p","g">>, <<"d","b","s">>}
\* "db", "Tool"
SearchTypes == {<<"d","b">>, <<"T","o","o","l">>}
\* "fast db"
SearchObservations == {<<"f","a","s","t"," ","d","b">>}
\* "db", "DBS", "tool", "fast", "st d"
SearchQueries ==
    {<<"d","b">>, <<"D","B","S">>, <<"t","o","o","l">>, <<"f","a","s","t">>,
     <<"s","t"," ","d">>}

SearchEntities ==
    {Entity(n, t, o) : n \in SearchNames, t \in SearchTypes,
                       o \in SeqsOf(SearchObservations, 0, 1)}

SearchGraphs ==
    {[entities |-> es, relations |-> <<>>] :
        es \in {s \in SeqsOf(SearchEntities, 0, MaxSearchEntities) :
                    \A i, j \in 1..Len(s) : s[i].name = s[j].name => i = j}}

InitSearch ==
    /\ graph \in SearchGraphs
    /\ store = with_config(DefaultThreshold)
    /\ events_file = <<>>
    /\ archive = {}
    /\ latest = NoFile
    /\ previous = NoFile
    /\ temp = NoFile
    /\ graph_lock = NoLock
    /\ store_lock = NoThread
    /\ pc = [t \in Threads |-> "idle"]
    /\ snap_id = [t \in Threads |-> 0]
    /\ local = [t \in Threads |-> NoLocal]
    /\ written = <<>>
    /\ taken = <<>>
    /\ memory_file = FileContent(graph)
    /\ broadcaster = EventBroadcaster
    /\ app_state = AppState
    /\ lastCall = NoCall

\* fallback_linear_search without a limit
fallback_linear_search(g, terms) ==
    Filter(g.entities,
           {e \in Range(g.entities) :
                \/ matches_with_synonyms(e.name, terms)
                \/ matches_with_synonyms(e.entityType, terms)
                \/ \E i \in 1..Len(e.observations) :
                        matches_with_synonyms(e.observations[i], terms)})

\* search_nodes(query, None, false): through the index when it has candidates,
\* by the linear scan when it has none
SearchNodes ==
    \E query \in SearchQueries :
        LET terms == get_synonyms(query)
            index == from_graph(graph)
            candidate_names == search_terms(index, terms)
        IN  \E entities \in (IF candidate_names # {}
                             THEN get_entities(index, candidate_names)
                             ELSE {fallback_linear_search(graph, terms)}) :
                /\ lastCall' = [op |-> "search_nodes", ok |-> TRUE, names |-> {},
                                relations |-> 0, query |-> query,
                                indexed |-> candidate_names # {},
                                entities |-> entities]
                /\ UNCHANGED <<graph, store, disk, locks, pc, snap_id, local, written,
                               taken, memory_file, channels>>

\* index.remove_entity(name) on the index of the graph
RemoveEntity ==
    \E e \in Range(graph.entities) :
        /\ lastCall' = [op |-> "remove_entity", ok |-> TRUE, names |-> {},
                        relations |-> 0, name |-> e.name, tokens |-> {}, types |-> {},
                        index |-> remove_entity(from_graph(graph), e.name)]
        /\ UNCHANGED <<graph, store, disk, locks, pc, snap_id, local, written,
                       taken, memory_file, channels>>

\* index.update_entity(entity) on the index of the graph, for a new form of an
\* entity of the graph
UpdateEntity ==
    \E e \in SearchEntities :
        /\ \E old \in Range(graph.entities) : old.name = e.name /\ old # e
        /\ lastCall' = [op |-> "update_entity", ok |-> TRUE, names |-> {},
                        relations |-> 0, name |-> e.name,
                        tokens |-> tokenize(e.name) \cup tokenize(e.entityType)
                                       \cup ObservationTokens(e),
                        types |-> {to_lowercase(e.entityType)},
                        index |-> update_entity(from_graph(graph), e)]
        /\ UNCHANGED <<graph, store, disk, locks, pc, snap_id, local, written,
                       taken, memory_file, channels>>

NextSearch == SearchNodes \/ RemoveEntity \/ UpdateEntity

SpecSearch == InitSearch /\ [][NextSearch]_vars

(***************************************************************************)
(* Properties.                                                             *)
(***************************************************************************)
MutationOps == {"create_entities", "create_relations", "add_observations",
                "delete_entities", "delete_observations", "delete_relations"}

\* number of occurrences of x in the sequence s
Count(x, s) == Cardinality({i \in 1..Len(s) : s[i] = x})

RECURSIVE ArchivedLines(_)
\* the lines of all files of the archive directory
ArchivedLines(arch) ==
    IF arch = {} THEN <<>>
    ELSE LET f == CHOOSE f \in arch : TRUE
         IN  f.lines \o ArchivedLines(arch \ {f})

\* every event stored in events.jsonl or in an archive file
Stored(evs, arch) == evs \o ArchivedLines(arch)

SameMultiset(s1, s2) ==
    \A x \in Range(s1) \cup Range(s2) : Count(x, s1) = Count(x, s2)

SnapshotGraph(f) == [entities |-> f.entities, relations |-> f.relations]

\* C1: every line of events.jsonl has an event id strictly greater than the line
\* before it, whatever appends and restarts came before.
C1_AppendMonotonic ==
    \A i \in 1..(Len(events_file) - 1) :
        events_file[i].eventId < events_file[i + 1].eventId

\* C2: at any point in the life of the store, loading the latest snapshot and
\* applying the logged events with a greater event id gives the same graph as
\* applying every event ever written to the empty graph.
C2_ReplayEquivalence ==
    latest.exists =>
        ApplyAll(SnapshotGraph(latest),
                 load_events_after(events_file, latest.last_event_id))
            = ApplyAll(EmptyGraph, written)

\* C3: a mutation call that returns the error of a failed event append leaves
\* the graph as it was before the call.
C3_FailedAppendKeepsGraph ==
    [][(lastCall'.op \in MutationOps /\ ~lastCall'.ok) => graph' = graph]_vars

\* C4: a failed event append never makes memory and log diverge: if replaying
\* the log gave the graph in memory before the failing call, it still does after it.
C4_FailedAppendKeepsSync ==
    [][(lastCall'.op \in MutationOps /\ ~lastCall'.ok /\ InSync(graph, written))
            => InSync(graph', written')]_vars

\* C5: after any mutation every relation of the graph has its from and its to
\* naming an entity of the graph.
C5_ReferentialIntegrity ==
    \A r \in Range(graph.relations) :
        /\ \E e \in Range(graph.entities) : e.name = r.from
        /\ \E e \in Range(graph.entities) : e.name = r.to

\* C6: after any sequence of mutation calls, also calls whose input repeats an
\* item, no two entities share a name and no two relations share
\* (from, to, relationType).
C6_UniqueKeys ==
    /\ \A i, j \in 1..Len(graph.entities) :
            i # j => graph.entities[i].name # graph.entities[j].name
    /\ \A i, j \in 1..Len(graph.relations) :
            i # j => ~SameRelation(graph.relations[i], graph.relations[j])

\* C7: right after delete_entities returns Ok, and right after apply_event has
\* applied an entity_deleted event, no relation of the graph has a deleted name
\* as its from or its to.
C7_CascadeDelete ==
    /\ (lastCall.op = "delete_entities" /\ lastCall.ok) =>
            \A r \in Range(graph.relations) :
                r.from \notin lastCall.names /\ r.to \notin lastCall.names
    /\ (lastCall.op = "apply_event" /\ lastCall.event.eventType = "entity_deleted") =>
            \A r \in Range(graph.relations) :
                r.from # lastCall.event.data.name /\ r.to # lastCall.event.data.name

\* a delete_entities call has returned Ok on a graph that held a relation of a
\* deleted name
C7_Witness ==
    /\ lastCall.op = "delete_entities"
    /\ lastCall.ok
    /\ Len(graph.relations) < lastCall.relations
    /\ \E e \in Range(written) :
            e.eventType = "entity_deleted" /\ e.data.name \in lastCall.names

\* C8: applying an event a second time changes nothing: the graph apply_event
\* has just produced is left as it is by applying the same event again.
C8_ApplyIdempotent ==
    lastCall.op = "apply_event" => apply_event(graph, lastCall.event) = graph

\* an observation_added event has been applied and its observation is in the graph
C8_Witness ==
    /\ lastCall.op = "apply_event"
    /\ lastCall.event.eventType = "observation_added"
    /\ \E e \in Range(graph.entities) :
            /\ e.name = lastCall.event.data.entity
            /\ lastCall.event.data.observation \in Range(e.observations)

\* C9: once a snapshot exists, no step leaves latest.jsonl missing: after every
\* step it holds the complete previous snapshot or the complete new one.
C9_SnapshotAtomic ==
    [][latest.exists => (latest'.exists /\ (latest' = latest \/ latest' = temp))]_vars

C11_CallsReturn ==
    \A t \in Threads : (pc[t] # "idle") ~> (pc[t] = "idle")

\* every thread has returned from the last call of its sequence
AllJoined == \A t \in Threads : pc[t] = "idle" /\ local[t].step = LastStep

\* C12: after all threads have joined, the graph holds exactly one entity per
\* thread, the one of the thread's own name, and each still carries the
\* observation it was created with.
C12_ConcurrentInserts ==
    AllJoined =>
        /\ Len(graph.entities) = Cardinality(Threads)
        /\ \A t \in Threads :
                \E i \in 1..Len(graph.entities) :
                    /\ graph.entities[i].name = OwnName(t)
                    /\ CreatedObs(t) \in Range(graph.entities[i].observations)

\* all threads have joined, the second one having created its entity while the
\* first was between two of its calls
C12_Witness ==
    /\ AllJoined
    /\ \E i \in 1..(Len(written) - 2) :
            /\ written[i].eventType = "entity_created"
            /\ written[i + 1].eventType = "entity_created"
            /\ written[i + 2].eventType = "observation_added"

\* C13: what a read call returns comes from one state of the graph: some graph
\* that held during the call contains every entity and every relation of the
\* result of open_nodes.
C13_ConsistentRead ==
    lastCall.op = "open_nodes" =>
        \E g \in lastCall.during :
            /\ \A e \in Range(lastCall.entities) : e \in Range(g.entities)
            /\ \A r \in Range(lastCall.relations) : r \in Range(g.relations)

C15_ObservationSet ==
    [][lastCall'.op = "add_observations" =>
            \A i \in 1..Len(graph.entities) : \A o \in Obs :
                Count(o, graph'.entities[i].observations)
                    <= IF Count(o, graph.entities[i].observations) > 0
                       THEN Count(o, graph.entities[i].observations)
                       ELSE 1]_vars

RECURSIVE DecayProduct(_)
\* the product of the decay factors of a sequence of relation types, in
\* Twentieths to the power of its length
DecayProduct(rel_types) ==
    IF rel_types = <<>> THEN 1
    ELSE get_decay_factor(Head(rel_types)) * DecayProduct(Tail(rel_types))

RECURSIVE Power(_, _)
Power(b, n) == IF n = 0 THEN 1 ELSE b * Power(b, n - 1)

\* f is backed by a simple path of the graph g from target, of 2 to max_depth
\* hops, whose decay factors multiply to f's confidence, which is at least
\* min_confidence
BackedByPath(f, g, target, min_confidence, max_depth) ==
    LET hops == Len(f.path) - 1
    IN  /\ f.from = target
        /\ f.path[1] = target
        /\ f.path[Len(f.path)] = f.to
        /\ hops >= 2
        /\ hops <= max_depth
        /\ Len(f.rel_types) = hops
        /\ \A j, k \in 1..Len(f.path) : j # k => f.path[j] # f.path[k]
        /\ \A j \in 1..hops :
                \E r \in Range(g.relations) :
                    /\ r.from = f.path[j]
                    /\ r.to = f.path[j + 1]
                    /\ r.relationType = f.rel_types[j]
        /\ f.confidence.num = DecayProduct(f.rel_types)
        /\ f.confidence.den = Power(Twentieths, hops)
        /\ f.confidence.num * Twentieths >= min_confidence * f.confidence.den

\* C16: every inferred relation that infer(X, c, d) returns is backed by a
\* simple path of the graph from X to its endpoint of 2 to d hops, has the
\* product of the decay factors along that path as its confidence, and that
\* confidence is at least c.
C16_InferenceSound ==
    lastCall.op = "infer" =>
        \A i \in 1..Len(lastCall.inferred) :
            BackedByPath(lastCall.inferred[i], graph, local[InferThread].target,
                         local[InferThread].min_confidence,
                         local[InferThread].max_depth)

\* infer has returned a relation inferred over two relations of different type
\* under a positive confidence threshold
C16_Witness ==
    /\ lastCall.op = "infer"
    /\ local[InferThread].min_confidence > 0
    /\ \E i \in 1..Len(lastCall.inferred) :
            lastCall.inferred[i].rel_types = <<"depends_on", "relates_to">>

\* the names the BFS can meet: the entities and the endpoints of the relations
NodeNames(g) ==
    {e.name : e \in Range(g.entities)}
        \cup {r.from : r \in Range(g.relations)} \cup {r.to : r \in Range(g.relations)}

WithoutUnparsable(file) ==
    IF ~file.exists THEN file
    ELSE [file EXCEPT !.entities = Filter(@, Range(@) \ {Unparsable}),
                      !.relations = Filter(@, Range(@) \ {Unparsable})]

\* the events of the lines of events.jsonl that can be parsed, data included
ParsedEvents(lines) ==
    Filter(load_events(lines), {e \in Range(load_events(lines)) : e.data # Unparsable})

\* C18: a line of events.jsonl or of the snapshot file that cannot be parsed never
\* aborts startup: initialize returns Ok, and the process starts with the state
\* built from all the other lines.
C18_MalformedSkipped ==
    lastCall.op = "new_with_event_sourcing" =>
        /\ lastCall.ok
        /\ graph = initialize(with_config(store.snapshot_threshold),
                              WithoutUnparsable(latest),
                              ParsedEvents(events_file)).graph

\* C19: when latest.jsonl is corrupt at startup, the process starts from the
\* snapshot of previous.jsonl plus the later events of the log; when the backup
\* cannot be read either, from the replay of the whole log, which is the empty
\* graph only when the log holds no event.
C19_BackupRecovery ==
    (/\ lastCall.op = "new_with_event_sourcing"
     /\ latest.exists
     /\ ~load_snapshot(latest).ok) =>
        LET b == recover_from_backup(previous)
            evs == ParsedEvents(events_file)
        IN  graph = IF b.ok /\ b.some
                    THEN ApplyAll(SnapshotGraph(b.snapshot),
                                  load_events_after(evs, b.snapshot.last_event_id))
                    ELSE ApplyAll(EmptyGraph, evs)

\* C20: exactly one backup generation is kept: when a create_snapshot_with_backup
\* call has returned Ok and is at least the second to do so, latest.jsonl holds
\* its snapshot, previous.jsonl holds the snapshot of the successful call before
\* it, and recover_from_backup returns that snapshot.
C20_OneBackupGeneration ==
    \A t \in Threads :
        (pc[t] = "snap_rotate" /\ Len(taken) >= 2) =>
            /\ latest = taken[Len(taken)]
            /\ previous = taken[Len(taken) - 1]
            /\ recover_from_backup(previous) =
                    [ok |-> TRUE, some |-> TRUE, snapshot |-> taken[Len(taken) - 1]]

\* the second successful call has just returned, with a different snapshot
C20_Witness ==
    \E t \in Threads :
        /\ pc[t] = "snap_rotate"
        /\ Len(taken) >= 2
        /\ previous.exists
        /\ latest.last_event_id > previous.last_event_id

\* a step in which the mutation call of thread t returns Ok: maybe_create_snapshot
\* found no snapshot due, or finished the one it took
ReturnsOk(t) ==
    /\ pc[t] \in {"snap_check", "snap_rotate"}
    /\ pc'[t] = "idle"
    /\ lastCall'.op # "initialize"

\* C21: whenever a mutation call returns Ok, the store has counted fewer than
\* snapshot_threshold events since the last snapshot, and the replay tail, the
\* lines of events.jsonl that come after the last snapshot, is as short.
C21_SnapshotsBoundTail ==
    [][\A t \in Threads :
        ReturnsOk(t) =>
            /\ store'.events_since_snapshot < store'.snapshot_threshold
            /\ Len(load_events_after(events_file', store'.last_snapshot_event_id))
                    < store'.snapshot_threshold]_vars

\* the lines a step appends to events.jsonl that have the event type ty
AppendedOf(ty) ==
    Cardinality({i \in (Len(written) + 1)..Len(written') :
                    written'[i].eventType = ty})

RECURSIVE ObservationCount(_)
\* the number of observations held by the entities
ObservationCount(ents) ==
    IF ents = <<>> THEN 0
    ELSE Len(Head(ents).observations) + ObservationCount(Tail(ents))

\* C22: a delete_entities call that returns Ok appends as many entity_deleted
\* events as it removes entities from the graph, and a delete_observations call
\* as many observation_removed events as it removes observations, whatever the
\* input list, a list naming an item twice included.
C22_DeletionEventPerRemoval ==
    [][/\ (lastCall'.op = "delete_entities" /\ lastCall'.ok) =>
            AppendedOf("entity_deleted")
                = Len(graph.entities) - Len(graph'.entities)
       /\ (lastCall'.op = "delete_observations" /\ lastCall'.ok) =>
            AppendedOf("observation_removed")
                = ObservationCount(graph.entities) - ObservationCount(graph'.entities)
      ]_vars

\* C23: every entity has updated_at >= created_at, after every mutation and in
\* every state rebuilt by replay.
C23_UpdatedNotBeforeCreated ==
    \A i \in 1..Len(graph.entities) :
        graph.entities[i].updated_at >= graph.entities[i].created_at

\* C24: the rewrite of the legacy memory.jsonl is atomic: at every instant, which
\* is what a crash at that instant leaves, the file holds the complete contents
\* from before the mutation or the complete new contents.
C24_LegacyRewriteAtomic ==
    \/ memory_file = FileContent(graph)
    \/ \E t \in Threads :
        \E before \in local[t].during : memory_file = FileContent(before)

\* C25: migrating a legacy file with e entity lines and r relation lines writes
\* e + r events with the ids 1..e + r, the entity_created events of the entity
\* lines in file order and then the relation_created events of the relation lines
\* in file order, and an initial snapshot whose last_event_id is e + r.
C25_MigrationEvents ==
    lastCall.op = "migrate_from_legacy" =>
        LET ents == Filter(memory_file, EntityInputs(Names))
            rels == Filter(memory_file, RelationInputs(Names))
            e == Len(ents)
            r == Len(rels)
        IN  /\ Len(events_file) = e + r
            /\ \A i \in 1..(e + r) : events_file[i].eventId = i
            /\ \A i \in 1..e :
                /\ events_file[i].eventType = "entity_created"
                /\ events_file[i].data = ents[i]
            /\ \A j \in 1..r :
                /\ events_file[e + j].eventType = "relation_created"
                /\ events_file[e + j].data = rels[j]
            /\ latest.exists
            /\ latest.last_event_id = e + r

\* a migrated file in which a relation line comes before an entity line
C25_Witness ==
    /\ lastCall.op = "migrate_from_legacy"
    /\ Len(events_file) = 3
    /\ \E i \in 1..Len(memory_file) :
        \E j \in (i + 1)..Len(memory_file) :
            /\ memory_file[i] \in RelationInputs(Names)
            /\ memory_file[j] \in EntityInputs(Names)

\* C26: cleanup_old_archives(keepN) keeps exactly the keepN archives covering the
\* highest event-id ranges (all of them when there are no more than keepN) and
\* deletes every older archive.
C26_CleanupKeepsMostRecent ==
    [][lastCall'.op = "cleanup_old_archives" =>
        LET keepN == lastCall'.relations
        IN  /\ archive' \subseteq archive
            /\ Cardinality(archive') =
                   IF Cardinality(archive) <= keepN THEN Cardinality(archive)
                   ELSE keepN
            /\ \A kept \in archive' : \A deleted \in archive \ archive' :
                   kept.hi > deleted.hi]_vars

\* the path of the inferred relation x is the path of y with hops added
ExtendsPath(x, y) ==
    /\ Len(y.path) < Len(x.path)
    /\ SubSeq(x.path, 1, Len(y.path)) = y.path

\* the confidence of x is lower than that of y
LowerConfidence(x, y) ==
    x.confidence.num * y.confidence.den < y.confidence.num * x.confidence.den

\* C27 as stated: in the list infer returns the hop counts never decrease, and a
\* relation found with fewer hops never has a lower confidence than one found
\* with more hops.
C27_FewerHopsHigherConfidence ==
    lastCall.op = "infer" =>
        \A i \in 1..Len(lastCall.inferred) : \A j \in 1..Len(lastCall.inferred) :
            LET x == lastCall.inferred[i]
                y == lastCall.inferred[j]
            IN  /\ i < j => Len(x.path) <= Len(y.path)
                /\ Len(x.path) < Len(y.path) => ~LowerConfidence(x, y)

\* C27: in the list infer returns the hop counts never decrease, and an inferred
\* relation whose path continues the path of another one has a lower confidence
\* than that one.
C27_ShortestPathFirst ==
    lastCall.op = "infer" =>
        \A i \in 1..Len(lastCall.inferred) : \A j \in 1..Len(lastCall.inferred) :
            LET x == lastCall.inferred[i]
                y == lastCall.inferred[j]
            IN  /\ i < j => Len(x.path) <= Len(y.path)
                /\ ExtendsPath(y, x) => LowerConfidence(y, x)

\* infer has returned a list with relations of two hops and of three hops, one
\* of them continuing the path of another
C27_Witness ==
    /\ lastCall.op = "infer"
    /\ \E i \in 1..Len(lastCall.inferred) : \E j \in 1..Len(lastCall.inferred) :
        /\ i < j
        /\ Len(lastCall.inferred[i].path) = 3
        /\ Len(lastCall.inferred[j].path) = 4
        /\ ExtendsPath(lastCall.inferred[j], lastCall.inferred[i])
    /\ \E i \in 1..Len(lastCall.inferred) : \E j \in 1..Len(lastCall.inferred) :
        /\ Len(lastCall.inferred[i].path) < Len(lastCall.inferred[j].path)
        /\ ~ExtendsPath(lastCall.inferred[j], lastCall.inferred[i])

\* the messages that have been sent, with the channel each was sent on
Emitted ==
    [ch : {"broadcaster"}, msg : Range(broadcaster.tx)]
    \cup [ch : {"app_state"}, msg : Range(app_state.event_tx)]

\* C28: every emitted message has a sequence id of its own, and a subscriber
\* receives the messages in strictly increasing order of sequence id.
C28_GloballyOrdered ==
    /\ \A x \in Emitted : \A y \in Emitted :
        x.msg.sequence_id = y.msg.sequence_id => x = y
    /\ \A i \in 1..Len(app_state.received) : \A j \in 1..Len(app_state.received) :
        i < j => app_state.received[i].sequence_id < app_state.received[j].sequence_id

\* C29: the history holds the at most EventHistorySize messages broadcast last, in
\* increasing order of sequence id, also while several threads are inside
\* broadcast; get_events_since(s) returns None exactly when s is below the oldest
\* retained sequence id, and otherwise the retained messages above s in
\* increasing order.
C29_BroadcastReplay ==
    LET h == broadcaster.event_history
        retained == {h[i].sequence_id : i \in 1..Len(h)}
    IN  /\ Len(h) <= EventHistorySize
        /\ \A i \in 1..Len(h) : \A j \in 1..Len(h) :
            i < j => h[i].sequence_id < h[j].sequence_id
        /\ (\A t \in Threads : pc[t] = "idle") =>
            retained = {n \in 0..(broadcaster.sequence_counter - 1) :
                            n + EventHistorySize >= broadcaster.sequence_counter}
        /\ lastCall.op = "get_events_since" =>
            /\ lastCall.result.some =
                ~(retained # {} /\ \A m \in retained : lastCall.since < m)
            /\ lastCall.result.some =>
                /\ Range(lastCall.result.events) =
                       {m \in Range(h) : m.sequence_id > lastCall.since}
                /\ \A i \in 1..Len(lastCall.result.events) :
                    \A j \in 1..Len(lastCall.result.events) :
                        i < j => lastCall.result.events[i].sequence_id
                                    < lastCall.result.events[j].sequence_id

WritingSnapshot(t) ==
    pc[t] \in {"snap_write", "snap_backup", "snap_prev", "snap_move", "snap_install",
               "snap_rotate"}

\* C31: a thread taking a snapshot holds no graph read lock while it writes the
\* snapshot files and rotates the log, and it does not acquire the graph lock
\* while it holds the Event Store lock.
C31_SnapshotLockProtocol ==
    [][\A t \in Threads :
        /\ WritingSnapshot(t)' => t \notin graph_lock'.readers
        /\ (t \in graph_lock'.readers /\ t \notin graph_lock.readers) =>
                store_lock # t]_vars

\* C32: after any sequence of successful mutation calls the graph in memory is
\* the graph a fresh process rebuilds from the snapshot and the log with
\* initialize.
C32_RestartTransparent ==
    (\A t \in Threads : pc[t] = "idle") =>
        graph = initialize(with_config(store.snapshot_threshold), latest,
                           events_file).graph

\* the snapshot files in the snapshot directory
SnapshotFiles == {f \in {temp, latest, previous} : f.exists}

\* C33: every snapshot file with last_event_id L holds exactly the graph that
\* results from the events written with an id up to L, also while other threads
\* are mutating.
C33_SnapshotConsistent ==
    \A f \in SnapshotFiles :
        SnapshotGraph(f) =
            ApplyAll(EmptyGraph,
                     Filter(written,
                            {e \in Range(written) : e.eventId <= f.last_event_id}))

\* C34: a mutation call that went on to take a snapshot returns Ok, also when
\* another thread is taking a snapshot at the same time, and when it returns
\* latest.jsonl is a snapshot and, if a snapshot had been taken before,
\* previous.jsonl is one too.
C34_ConcurrentSnapshotsSafe ==
    [][\A t \in Threads :
        (WritingSnapshot(t) /\ pc'[t] = "idle") =>
            /\ pc[t] = "snap_rotate"
            /\ latest'.exists
            /\ Len(taken) >= 2 => previous'.exists]_vars

\* C35: when a manual rotate_event_log has returned, every event whose append
\* returned success is in events.jsonl or in an archive file, also when
\* mutation calls ran while it rotated.
C35_RotationLosesNoEvent ==
    lastCall.op = "rotate_event_log" =>
        \A e \in Range(written) : e \in Range(Stored(events_file, archive))

\* C36: when a rotation has completed, also one that follows a crash inside an
\* earlier rotation and a restart, every event written is stored exactly once
\* in events.jsonl and the archive files together.
C36_RotationCrashSafe ==
    lastCall.op = "rotate_after_snapshot" =>
        \A e \in Range(written) : Count(e, Stored(events_file, archive)) = 1

\* C37: in Legacy mode, when a mutation call has returned the error of
\* rewriting memory.jsonl, the graph in memory is the content of the file.
C37_FailedPersistNotVisible ==
    (lastCall.op = "persist_to_file" /\ ~lastCall.ok) =>
        FileContent(graph) = memory_file

\* C38: a search_nodes call answered through the inverted index returns the
\* same set of entities as the linear scan of the graph with the same terms.
C38_IndexedSearchIsScan ==
    (lastCall.op = "search_nodes" /\ lastCall.indexed) =>
        Range(lastCall.entities)
            = Range(fallback_linear_search(graph, get_synonyms(lastCall.query)))

\* C40: after remove_entity(n), or update_entity of n, search(term) contains n
\* only for a term that a token of n's current form contains, and
\* get_by_type(type) contains n only for the type of n's current form.
C40_NoStalePostings ==
    lastCall.op \in {"remove_entity", "update_entity"} =>
        /\ \A term \in SearchQueries \cup SearchTypes :
                lastCall.name \in search(lastCall.index, term) =>
                    \E token \in lastCall.tokens : str_contains(token, to_lowercase(term))
        /\ \A type \in SearchTypes :
                lastCall.name \in get_by_type(lastCall.index, type) =>
                    to_lowercase(type) \in lastCall.types

\* the simple paths of at most d hops that start at x, each as the sequence of
\* the indices of its relations in rs
SimplePaths(rs, x, d) ==
    {p \in SeqsOf(1..Len(rs), 1, d) :
        /\ rs[p[1]].from = x
        /\ \A i \in 1..(Len(p) - 1) : rs[p[i]].to = rs[p[i + 1]].from
        /\ \A i \in 1..Len(p) : rs[p[i]].to # x
        /\ \A i, j \in 1..Len(p) : rs[p[i]].to = rs[p[j]].to => i = j}

RECURSIVE PathConfidence(_, _)
\* the product of the decay factors along the path p
PathConfidence(rs, p) ==
    IF p = <<>> THEN [num |-> 1, den |-> 1]
    ELSE LET rest == PathConfidence(rs, SubSeq(p, 1, Len(p) - 1))
         IN  [num |-> rest.num * get_decay_factor(rs[p[Len(p)]].relationType),
              den |-> rest.den * Twentieths]

\* C39: infer(X, c, d) returns an inferred relation to every entity Y, other
\* than X and its direct successors, to which a simple path from X of at most d
\* hops leads whose product of decay factors is at least c.
C39_InferenceComplete ==
    lastCall.op = "infer" =>
        LET l == local[InferThread]
            rs == graph.relations
            direct == {rs[i].to : i \in {k \in 1..Len(rs) : rs[k].from = l.target}}
        IN  \A p \in SimplePaths(rs, l.target, l.max_depth) :
                (/\ rs[p[Len(p)]].to \notin direct
                 /\ ~below_threshold(PathConfidence(rs, p), l.min_confidence))
                    => \E i \in 1..Len(lastCall.inferred) :
                            lastCall.inferred[i].to = rs[p[Len(p)]].to
====
